---- MODULE Spec2Model ----
(***************************************************************************)
(* Conversation sync engine of the agent dashboard backend.                *)
(*                                                                         *)
(*   services/syncService.js   syncConversations, buildRow,                *)
(*                             extractUserName                             *)
(*   services/elevenlabs.js    elFetch, fetchConversationPage,             *)
(*                             fetchAllConversations,                      *)
(*                             fetchConversationDetail                     *)
(*   utils/errors.js           Errors                                      *)
(*                                                                         *)
(* A run of syncConversations is a small state machine whose steps are the *)
(* awaits of the code: the checkpoint query, one step per page request,    *)
(* the issue and the settling of every detail request of a batch, the      *)
(* pacing delay, the bulk upsert, the marker update and the count query.   *)
(* The upstream service and the store are the environment: every request   *)
(* to them may fail.                                                       *)
(***************************************************************************)
EXTENDS Integers, Sequences, FiniteSets, TLC

(***************************************************************************)
(* Encoding of JavaScript values.  A number that is null or undefined is   *)
(* NULL, a string that is null or undefined is NoStr.  An object that may  *)
(* be missing carries a field "present".                                   *)
(***************************************************************************)
NULL == 0 - 1
NoStr == "<null>"

Truthy(n) == n # NULL /\ n # 0
TruthyStr(s) == s # NoStr /\ s # ""

\* a || b || null on numbers, a || b || null on strings
OrNum(a, b) == IF Truthy(a) THEN a ELSE IF Truthy(b) THEN b ELSE NULL
OrStr(a, b) == IF TruthyStr(a) THEN a ELSE IF TruthyStr(b) THEN b ELSE NoStr

Min(a, b) == IF a <= b THEN a ELSE b

(***************************************************************************)
(* Bounds of the model.                                                    *)
(***************************************************************************)
\* conversations the finite upstream can ever hold
MaxConv == 4
\* items the upstream puts on one page of the finite listing
PageSize == 3
\* sync runs started in one behaviour
MaxRuns == 2
\* resets of a conversation cache in one behaviour
MaxResets == 1
\* agents created, updated or deleted in one behaviour
MaxEdits == 1
\* invites recorded
MaxInvites == 2
\* conversations that appear upstream between runs
MaxAdds == 1

(***************************************************************************)
(* Program constants.                                                      *)
(***************************************************************************)
DETAIL_BATCH_SIZE == 8
DefaultMaxPages == 20

(***************************************************************************)
(* Payload shapes.                                                         *)
(***************************************************************************)
NoCharging == [present |-> FALSE, llm_charge |-> NULL, llm_price |-> NULL]
NoMeta == [present |-> FALSE, start_time_unix_secs |-> NULL,
           call_duration_secs |-> NULL, cost |-> NULL, charging |-> NoCharging]
\* the object literal {}
EmptyMeta == [NoMeta EXCEPT !.present = TRUE]
NoEval == [present |-> FALSE, result |-> NoStr]
NoAnalysis == [present |-> FALSE, transcript_summary |-> NoStr,
               confidence_score |-> NoEval, knowledge_coverage_score |-> NoEval,
               primary_question |-> NoStr, question_category |-> NoStr]
\* a transcript that is null or missing in the payload
NoTranscript == << [role |-> NoStr, message |-> NoStr] >>
\* detail = null
NoDetail == [present |-> FALSE, status |-> NoStr, transcript |-> << >>,
             metadata |-> NoMeta, analysis |-> NoAnalysis, dynamic_variables |-> << >>]

(***************************************************************************)
(* extractUserName.  A dynamic variable is [key, type, text, len]; a       *)
(* transcript turn is [role, message].  String search and the greeting     *)
(* pattern are tabulated on the sample keys and messages below.            *)
(***************************************************************************)
\* k.toLowerCase().includes('name') || k.toLowerCase().includes('user')
KeySuggestsName(k) == k \in {"user_name", "customer_name", "UserId", "caller_name"}

\* a truthy value: a non-empty string or a non-zero number
TruthyVal(v) == \/ v.type = "string" /\ v.len > 0
                \/ v.type = "number" /\ v.text # "0"

\* m[1] of message.match(/\b(?:hey|hello|hi)\s+([A-Z][a-z]{1,30})\b/i), NoStr without a match
GreetingMatch(message) ==
    CASE message = "Hello Sam, how can I help?" -> "Sam"
      [] message = "hi there"                   -> "there"
      [] message = "Hey Ana!"                   -> "Ana"
      [] OTHER                                  -> NoStr

RECURSIVE FirstNameLike(_, _)
FirstNameLike(dv, k) ==
    IF k > Len(dv) THEN NoStr
    ELSE IF /\ KeySuggestsName(dv[k].key)
            /\ TruthyVal(dv[k])
            /\ dv[k].type = "string"
            /\ dv[k].len < 40
         THEN dv[k].text
         ELSE FirstNameLike(dv, k + 1)

\* mutant: the scan reads the turns of every role
RECURSIVE FirstGreetingAnyRole(_, _)
FirstGreetingAnyRole(tr, k) ==
    IF k > Min(Len(tr), 20) THEN NoStr
    ELSE IF /\ TruthyStr(tr[k].message)
            /\ GreetingMatch(tr[k].message) # NoStr
         THEN GreetingMatch(tr[k].message)
         ELSE FirstGreetingAnyRole(tr, k + 1)

RECURSIVE FirstGreeting(_, _)
FirstGreeting(tr, k) ==
    IF k > Min(Len(tr), 20) THEN NoStr
    ELSE IF /\ tr[k].role = "agent"
            /\ TruthyStr(tr[k].message)
            /\ GreetingMatch(tr[k].message) # NoStr
         THEN GreetingMatch(tr[k].message)
         ELSE FirstGreeting(tr, k + 1)

DvUserName(dv) ==
    IF \E k \in 1..Len(dv) : dv[k].key = "user_name" /\ TruthyVal(dv[k])
    THEN (CHOOSE v \in {dv[k] : k \in 1..Len(dv)} : v.key = "user_name" /\ TruthyVal(v)).text
    ELSE NoStr

extractUserName(detail, transcript) ==
    LET dv == IF detail.present THEN detail.dynamic_variables ELSE << >>
    IN  IF DvUserName(dv) # NoStr THEN DvUserName(dv)
        ELSE IF FirstNameLike(dv, 1) # NoStr THEN FirstNameLike(dv, 1)
        ELSE FirstGreeting(transcript, 1)

(***************************************************************************)
(* buildRow.  now stands for new Date().toISOString().                     *)
(***************************************************************************)
\* detail?.metadata || listItem?.metadata || {}
RowMeta(listItem, detail) ==
    IF detail.present /\ detail.metadata.present THEN detail.metadata
    ELSE IF listItem.metadata.present THEN listItem.metadata
    ELSE EmptyMeta

\* mutant: the transcript of the payload as it is, null when the payload has none
RowTranscriptRaw(detail) == IF detail.present THEN detail.transcript ELSE NoTranscript

\* tr = detail?.transcript || [], then tr.length ? tr : []
RowTranscript(detail) ==
    IF detail.present /\ detail.transcript # NoTranscript THEN detail.transcript ELSE << >>

\* mutant: the cost is taken from the charging block, null without one
RowCostFromCharging(meta, charging) == IF charging.present THEN meta.cost ELSE NULL

\* meta?.cost != null ? Number(meta.cost) : null
RowCost(meta, charging) == meta.cost

buildRow(agentDbId, agentElId, listItem, detail, now) ==
    LET meta     == RowMeta(listItem, detail)
        charging == IF meta.charging.present THEN meta.charging ELSE NoCharging
        tr       == RowTranscript(detail)
        analysis == IF detail.present /\ detail.analysis.present
                    THEN detail.analysis ELSE NoAnalysis
    IN  [ conversation_id |-> listItem.conversation_id,
          agent_db_id     |-> agentDbId,
          agent_el_id     |-> IF TruthyStr(agentElId) THEN agentElId ELSE NoStr,
          status          |-> OrStr(IF detail.present THEN detail.status ELSE NoStr,
                                    listItem.status),
          start_time_unix |-> OrNum(meta.start_time_unix_secs,
                                    listItem.metadata.start_time_unix_secs),
          duration_secs   |-> OrNum(meta.call_duration_secs,
                                    listItem.metadata.call_duration_secs),
          user_name       |-> extractUserName(detail, tr),
          transcript      |-> tr,
          metadata        |-> meta,
          cost            |-> RowCost(meta, charging),
          llm_cost        |-> charging.llm_charge,
          llm_price       |-> charging.llm_price,
          transcript_summary       |-> analysis.transcript_summary,
          confidence_score         |-> analysis.confidence_score,
          knowledge_coverage_score |-> analysis.knowledge_coverage_score,
          primary_question         |-> analysis.primary_question,
          question_category        |-> analysis.question_category,
          synced_at       |-> now ]

(***************************************************************************)
(* utils/errors.js and elFetch.  An HTTP exchange is [network, status]:    *)
(* network = TRUE when fetch() itself threw (DNS, timeout), else status is *)
(* the response status.                                                    *)
(***************************************************************************)
NoError == [code |-> "", statusCode |-> 0, status |-> NULL]
AppError(statusCode, code, status) ==
    [code |-> code, statusCode |-> statusCode, status |-> status]

ErrNotFound == AppError(404, "NOT_FOUND", NULL)
ErrTooMany == AppError(429, "RATE_LIMITED", NULL)
ErrElevenlabs(status) == AppError(502, "ELEVENLABS_ERROR", status)
ErrDatabase == AppError(500, "DATABASE_ERROR", NULL)
ErrUnauthorized == AppError(401, "UNAUTHORIZED", NULL)
ErrForbidden == AppError(403, "FORBIDDEN", NULL)
ErrBadRequest == AppError(400, "BAD_REQUEST", NULL)

Http(status) == [network |-> FALSE, status |-> status]
\* no exchange has taken place
NoExchange == [network |-> FALSE, status |-> 0]
NetworkFailure == [network |-> TRUE, status |-> 0]
ResOk(res) == ~res.network /\ res.status >= 200 /\ res.status <= 299

\* mutant: no mapping of the common status codes
elFetchErrorUnmapped(res) ==
    IF res.network THEN ErrElevenlabs(NULL) ELSE ErrElevenlabs(res.status)

\* the error elFetch throws for an exchange that is not ok
elFetchError(res) ==
    IF res.network THEN ErrElevenlabs(NULL)
    ELSE IF res.status = 401 THEN ErrElevenlabs(401)
    ELSE IF res.status = 403 THEN ErrElevenlabs(403)
    ELSE IF res.status = 404 THEN ErrNotFound
    ELSE IF res.status = 429 THEN ErrTooMany
    ELSE ErrElevenlabs(res.status)

\* the exchanges in which a request to the upstream fails
FailedExchanges == {NetworkFailure} \cup {Http(s) : s \in {401, 403, 404, 429, 500, 503}}

(***************************************************************************)
(* The upstream service.  A finite listing holds the conversations         *)
(* feed[1], feed[2], ... (upstream order, normally newest first) on pages  *)
(* of PageSize items; the endless listing answers every request with a     *)
(* page of one older conversation and a next cursor.  Every conversation   *)
(* has a positive start time, which the listing carries in the item's      *)
(* metadata block ("nested") or on the item itself ("top"): the two places *)
(* fetchAllConversations reads.  The detail of a conversation agrees with  *)
(* its list item on the start time and the duration.                       *)
(***************************************************************************)
ConvStart(id) == IF id > 100 THEN 200 - id ELSE id
ConvDuration(id) == IF id % 2 = 0 THEN 0 ELSE 30 + (id % 4)

ListItemOf(id, shape) ==
    [ conversation_id |-> id,
      status |-> "done",
      metadata |-> IF shape = "nested"
                   THEN [EmptyMeta EXCEPT !.start_time_unix_secs = ConvStart(id),
                                          !.call_duration_secs = ConvDuration(id)]
                   ELSE NoMeta,
      start_time_unix_secs |-> IF shape = "top" THEN ConvStart(id) ELSE NULL,
      call_duration_secs |-> IF shape = "top" THEN ConvDuration(id) ELSE NULL ]

Turn(role, message) == [role |-> role, message |-> message]
DynVar(key, type, text, len) == [key |-> key, type |-> type, text |-> text, len |-> len]

\* GET /conversations/{id}: four payload variants
DetailOf(id) ==
    LET v == id % 4
        full == [EmptyMeta EXCEPT !.start_time_unix_secs = ConvStart(id),
                                  !.call_duration_secs = ConvDuration(id)]
    IN  CASE v = 1 ->
              [ present |-> TRUE, status |-> "done",
                transcript |-> << Turn("agent", "Hello Sam, how can I help?"),
                                  Turn("user", "What is the leave policy?") >>,
                metadata |-> [full EXCEPT !.cost = 5,
                                !.charging = [present |-> TRUE, llm_charge |-> 2, llm_price |-> 1]],
                analysis |-> [ present |-> TRUE, transcript_summary |-> "asked about leave",
                               confidence_score |-> [present |-> TRUE, result |-> "success"],
                               knowledge_coverage_score |-> [present |-> TRUE, result |-> "failure"],
                               primary_question |-> "What is the leave policy?",
                               question_category |-> "Company" ],
                dynamic_variables |-> << DynVar("user_name", "string", "Sam", 3) >> ]
          [] v = 2 ->
              [ present |-> TRUE, status |-> "done",
                transcript |-> << Turn("user", "hello"), Turn("agent", "hi there") >>,
                metadata |-> [full EXCEPT !.cost = 4],
                analysis |-> NoAnalysis,
                dynamic_variables |-> << >> ]
          [] v = 3 ->
              [ present |-> TRUE, status |-> "done",
                transcript |-> << >>,
                metadata |-> full,
                analysis |-> [NoAnalysis EXCEPT !.present = TRUE, !.transcript_summary = ""],
                dynamic_variables |-> << DynVar("agent_mode", "string", "hr", 2),
                                         DynVar("customer_name", "string", "Ana", 3) >> ]
          [] OTHER ->
              [ present |-> TRUE, status |-> "",
                transcript |-> << Turn("agent", NoStr), Turn("agent", "Hey Ana!") >>,
                metadata |-> [full EXCEPT !.cost = 0,
                                !.charging = [present |-> TRUE, llm_charge |-> 0, llm_price |-> NULL]],
                analysis |-> [NoAnalysis EXCEPT !.present = TRUE,
                                !.confidence_score = [present |-> TRUE, result |-> "unknown"]],
                dynamic_variables |-> << DynVar("user_name", "string", "", 0) >> ]

\* the response body of GET /conversations?cursor
PageResponse(up, cursor) ==
    LET s == IF cursor = NULL THEN 1 ELSE cursor
    IN  IF up.kind = "endless"
        THEN [ conversations |-> << ListItemOf(100 + s, up.shape) >>,
               next_cursor |-> s + 1 ]
        \* a listing that comes on pages of one item
        ELSE IF up.kind = "paged"
        THEN [ conversations |-> << ListItemOf(up.feed[s], up.shape) >>,
               next_cursor |-> IF s < Len(up.feed) THEN s + 1 ELSE NULL ]
        ELSE [ conversations |->
                   [k \in 1..(Min(s + PageSize - 1, Len(up.feed)) - s + 1)
                       |-> ListItemOf(up.feed[s + k - 1], up.shape)],
               next_cursor |-> IF s + PageSize <= Len(up.feed) THEN s + PageSize ELSE NULL ]

(***************************************************************************)
(* fetchAllConversations: the body of the do-while loop on one page.       *)
(***************************************************************************)
\* conv.metadata?.start_time_unix_secs || conv.start_time_unix_secs || null
ItemStartTime(conv) == OrNum(conv.metadata.start_time_unix_secs, conv.start_time_unix_secs)

\* mutant: the early-stop test with < for <=
StopsAtStrict(stopBeforeUnix, startTime) ==
    Truthy(stopBeforeUnix) /\ Truthy(startTime) /\ startTime < stopBeforeUnix

\* the early-stop test of the inner loop
StopsAt(stopBeforeUnix, startTime) ==
    Truthy(stopBeforeUnix) /\ Truthy(startTime) /\ startTime <= stopBeforeUnix

\* index of the first item of convs the inner loop breaks on, Len(convs)+1 if none
RECURSIVE FirstStop(_, _, _)
FirstStop(convs, stopBeforeUnix, k) ==
    IF k > Len(convs) THEN k
    ELSE IF StopsAt(stopBeforeUnix, ItemStartTime(convs[k])) THEN k
    ELSE FirstStop(convs, stopBeforeUnix, k + 1)

\* mutant: the while condition with <= for <
ContinuePagingInclusive(cursor, page, maxPages) == Truthy(cursor) /\ page <= maxPages

\* the while condition
\* mutant: the loop ends one page before the ceiling
ContinuePagingShort(cursor, page, maxPages) == Truthy(cursor) /\ page + 1 < maxPages

ContinuePaging(cursor, page, maxPages) == Truthy(cursor) /\ page < maxPages

\* mutant: the log entry counts the page that was never requested
FetchLogNextPage(all, page, stopped) ==
    [totalFetched |-> Len(all), pages |-> page + 1, stoppedEarly |-> stopped]

\* the object logged by 'ElevenLabs fetch complete'
FetchLog(all, page, stopped) ==
    [totalFetched |-> Len(all), pages |-> page, stoppedEarly |-> stopped]
NoFetchLog == [totalFetched |-> NULL, pages |-> NULL, stoppedEarly |-> FALSE]

(***************************************************************************)
(* The store: the conversations table is a set of rows, the agents table a *)
(* function from the agent's id to its record.                             *)
(***************************************************************************)
RowsOf(table, agentDbId) == {t \in table : t.agent_db_id = agentDbId}

SetMax(S) == CHOOSE m \in S : \A n \in S : n <= m

\* .select('start_time_unix').eq('agent_db_id', a).order(desc).limit(1).maybeSingle(),
\* then latest?.start_time_unix || null.  The place of the rows whose start time is
\* null in the descending order is the store's (nullsFirst).
Checkpoint(table, agentDbId, nullsFirst) ==
    LET starts == {t.start_time_unix : t \in RowsOf(table, agentDbId)}
        known  == starts \ {NULL}
    IN  IF starts = {} THEN NULL
        ELSE IF NULL \in starts /\ nullsFirst THEN NULL
        ELSE IF known = {} THEN NULL
        ELSE IF Truthy(SetMax(known)) THEN SetMax(known) ELSE NULL

\* mutant: a plain insert into a table without the unique conversation_id
InsertRows(table, rows) == table \cup {rows[k] : k \in 1..Len(rows)}

\* mutant: the upsert with ignoreDuplicates, which keeps the stored row on a conflict
UpsertIgnoreDuplicates(table, rows) ==
    LET new == {rows[k] : k \in 1..Len(rows)}
        ids == {t.conversation_id : t \in table}
    IN  table \cup {t \in new : t.conversation_id \notin ids}

\* .upsert(rows, { onConflict: 'conversation_id' })
UpsertRows(table, rows) ==
    LET new == {rows[k] : k \in 1..Len(rows)}
        ids == {t.conversation_id : t \in new}
    IN  {t \in table : t.conversation_id \notin ids} \cup new

\* .select('*', { count: 'exact', head: true }).eq('agent_db_id', a)
CountOf(table, agentDbId) == Cardinality(RowsOf(table, agentDbId))

(***************************************************************************)
(* State.                                                                  *)
(***************************************************************************)
VARIABLES
    upstream,       \* the upstream service: [kind, shape, feed, flaky]
    nullsFirst,     \* whether the store orders null start times first, descending
    conversations,  \* the conversations table
    agents,         \* the agents table
    run,            \* run[r]: the state of run slot r of syncConversations
    started,        \* runs started so far
    adds,           \* conversations added upstream so far
    changed,        \* a conversation was added upstream since the last run started
    profiles,       \* the profiles table: the role of each user
    agent_access,   \* the agent_access table: <<user_id, agent_id>> pairs
    web,            \* the request the routes are handling, and its response
    probe,          \* a (listItem, detail) pair handed to buildRow, and its row
    pending_invites,\* the pending_invites table, oldest first: [email, role]
    signup          \* signup[u]: the state of the signup request of user u

\* the variables of the sync service and of its environment
syncVars == <<upstream, nullsFirst, conversations, agents, run, started, adds, changed>>
\* the variables of the routes, and the buildRow probe
apiVars == <<profiles, agent_access, web, probe, pending_invites, signup>>
vars == <<syncVars, apiVars>>

AgentIds == {"A"}
\* the users
Users == {"ann", "bob"}
\* no user has a profile
NoProfiles == [u \in Users |-> NoStr]
\* buildRow is not being probed
NoProbe == [built |-> FALSE]

\* a row of the agents table; agent B has no API key configured
AgentRow(id) ==
    [ id |-> id,
      name |-> (CASE id = "A" -> "Agent A" [] id = "B" -> "Agent B" [] OTHER -> "Agent C"),
      agent_id |-> "el_agent",
      api_key |-> (CASE id = "A" -> "key_A" [] id = "B" -> "" [] OTHER -> "key_C"),
      emoji |-> "bot", color |-> "lav", created_at |-> 0,
      last_synced_at |-> NULL ]

\* no agent was looked up
NoAgent == [id |-> NoStr, name |-> NoStr, agent_id |-> NoStr, api_key |-> NoStr,
            last_synced_at |-> NULL]
\* what res.json sends: the status, the error code, the agent records and the
\* conversation rows in the body, and the other fields of the body
NoResponse == [status |-> 0, code |-> "", agents |-> {}, rows |-> {}, info |-> << >>]
\* the routes are handling no request
IdleWeb ==
    [ pc |-> "idle", resets |-> 0, edits |-> 0, caller |-> NoStr, role |-> NoStr, route |-> "",
      agentId |-> "", agent |-> NoAgent, lookups |-> 0, invoked |-> FALSE,
      response |-> NoResponse,
      \* the store and the runs started when the request arrived
      table0 |-> {}, agents0 |-> << >>, started0 |-> 0 ]
\* no signup request is being handled
NoSignup ==
    [ pc |-> "idle", count |-> NULL, role |-> NoStr, invite |-> NoStr,
      \* history: the profiles table was empty and the newest invite of the email when
      \* the request arrived, an invite was recorded for the email since, the response
      first |-> FALSE, invited0 |-> NoStr, invitedSince |-> FALSE, response |-> NoResponse ]
NoSignups == [u \in Users |-> NoSignup]
Runs == {1}

NoSummary == [newCount |-> NULL, totalCount |-> NULL, lastSyncedAt |-> NULL]
Pending == [state |-> "pending", value |-> NoDetail, reason |-> NoError, res |-> NoExchange]

IdleRun ==
    [ pc |-> "idle", agentDbId |-> "A", agentElId |-> NoStr, now |-> 0,
      stopBeforeUnix |-> NULL,
      \* fetchAllConversations
      cursor |-> NULL, page |-> 0, stopped |-> FALSE, allConversations |-> << >>,
      fetchLog |-> NoFetchLog,
      \* the detail loop
      i |-> 0, results |-> << >>, detailedConvs |-> << >>, rows |-> << >>,
      \* the outcome
      error |-> NoError, errAt |-> "", summary |-> NoSummary,
      \* history of the run
      pageRequests |-> 0, detailRequests |-> 0, sleeps |-> 0, remoteError |-> NoError,
      remoteRes |-> NoExchange,
      checkpointFailed |-> FALSE, upsertFailed |-> FALSE, countFailed |-> FALSE,
      markerFailed |-> FALSE,
      detailFailures |-> 0, upsertCalls |-> 0, markerCalls |-> 0,
      \* history across runs: the store at the call, the outcome of the run before
      table0 |-> {}, agents0 |-> << >>, prev |-> NoSummary, prevCountFailed |-> FALSE,
      prevStop |-> NULL,
      static |-> FALSE ]

\* a descending listing n, n-1, ..., 1
Desc(n) == [k \in 1..n |-> n + 1 - k]

\* the conversations whose detail request may fail: none, the oldest, the two oldest,
\* the newest listed, the next one to appear
FlakySets(n) == {{}, {1}, {1, 2}, {n}, {n + 1}}

FiniteWorlds ==
    UNION { { [kind |-> "finite", shape |-> sh, feed |-> Desc(n), flaky |-> fl] :
                sh \in {"nested", "top"}, fl \in FlakySets(n) } :
            n \in 0..MaxConv }

EndlessWorlds ==
    { [kind |-> "endless", shape |-> sh, feed |-> << >>, flaky |-> fl] :
        sh \in {"nested", "top"}, fl \in {{}, {101}} }

Init ==
    /\ upstream \in FiniteWorlds \cup EndlessWorlds
    \* a null start time is stored only for a "top" listing: the order of nulls is
    \* immaterial for a "nested" one
    /\ nullsFirst \in IF upstream.shape = "top" THEN BOOLEAN ELSE {FALSE}
    /\ conversations = {}
    /\ agents = [a \in AgentIds |-> AgentRow(a)]
    /\ run = [r \in Runs |-> IdleRun]
    /\ started = 0
    /\ adds = 0
    /\ changed = FALSE
    /\ profiles = NoProfiles
    /\ agent_access = {}
    /\ web = IdleWeb
    /\ probe = NoProbe
    /\ pending_invites = << >>
    /\ signup = NoSignups

Throw(rr, err, at) == [rr EXCEPT !.pc = "failed", !.error = err, !.errAt = at]

(***************************************************************************)
(* The environment: a new conversation, newer than all, appears upstream   *)
(* between two runs.                                                       *)
(***************************************************************************)
Active(r) == run[r].pc \notin {"idle", "done", "failed"}

UpstreamAdd ==
    /\ upstream.kind = "finite"
    /\ adds < MaxAdds
    /\ started > 0 /\ started < MaxRuns
    /\ Len(upstream.feed) < MaxConv
    /\ \A r \in Runs : ~Active(r)
    /\ upstream' = [upstream EXCEPT !.feed = <<Len(upstream.feed) + 1>> \o upstream.feed]
    /\ adds' = adds + 1
    /\ changed' = TRUE
    /\ UNCHANGED <<apiVars, nullsFirst, conversations, agents, run, started>>

(***************************************************************************)
(* syncConversations(agentDbId, agentElId, apiKey)                         *)
(***************************************************************************)
\* the call: the checkpoint query is sent
Invoke(r, a) ==
    /\ ~Active(r)
    /\ started < MaxRuns
    /\ run' = [run EXCEPT ![r] =
                 [IdleRun EXCEPT !.pc = "checkpoint",
                                 !.agentDbId = a,
                                 !.agentElId = agents[a].agent_id,
                                 !.now = started + 1,
                                 !.table0 = conversations,
                                 !.agents0 = agents,
                                 !.prev = IF run[r].pc = "done" /\ run[r].agentDbId = a
                                          THEN run[r].summary ELSE NoSummary,
                                 !.prevCountFailed = run[r].countFailed,
                                 !.prevStop = IF run[r].pc = "done" /\ run[r].agentDbId = a
                                              THEN run[r].stopBeforeUnix ELSE NULL,
                                 !.static = ~changed]]
    /\ started' = started + 1
    /\ changed' = FALSE
    /\ UNCHANGED <<upstream, nullsFirst, conversations, agents, adds>>

\* a call of syncConversations on its own
Start(r, a) == Invoke(r, a) /\ UNCHANGED apiVars

\* Step 1: the checkpoint query answers
AfterCheckpoint(rr, latest) ==
    [rr EXCEPT !.pc = "listing", !.stopBeforeUnix = latest]

\* mutant: latestErr is not looked at and the run goes on without a checkpoint
AfterCheckpointFailureIgnored(rr) ==
    [rr EXCEPT !.checkpointFailed = TRUE, !.pc = "listing", !.stopBeforeUnix = NULL]

\* Step 1: if (latestErr) throw Errors.database(...)
AfterCheckpointFailure(rr) ==
    Throw([rr EXCEPT !.checkpointFailed = TRUE], ErrDatabase, "checkpoint")

ReadCheckpoint(r) ==
    /\ run[r].pc = "checkpoint"
    /\ run' = [run EXCEPT ![r] =
                 AfterCheckpoint(@, Checkpoint(conversations, @.agentDbId, nullsFirst))]
    /\ UNCHANGED <<apiVars, upstream, nullsFirst, conversations, agents, started, adds, changed>>

ReadCheckpointFail(r) ==
    /\ run[r].pc = "checkpoint"
    /\ run' = [run EXCEPT ![r] = AfterCheckpointFailure(@)]
    /\ UNCHANGED <<apiVars, upstream, nullsFirst, conversations, agents, started, adds, changed>>

\* mutant: no test of newConvs.length, a run that found nothing goes through Steps 3 to 6
AfterListingNoEmptyBranch(rr) ==
    [rr EXCEPT !.fetchLog = FetchLog(rr.allConversations, rr.page, rr.stopped),
               !.pc = "batch", !.i = 0]

\* fetchAllConversations returned newConvs: Step 2's test of newConvs.length
AfterListing(rr) ==
    LET logged == [rr EXCEPT !.fetchLog = FetchLog(rr.allConversations, rr.page, rr.stopped)]
    IN  IF Len(rr.allConversations) = 0
        THEN [logged EXCEPT !.pc = "count0"]
        ELSE [logged EXCEPT !.pc = "batch", !.i = 0]

\* one iteration of the do-while loop on the response data
AfterPage(rr, data, maxPages) ==
    LET convs == data.conversations
        stop  == FirstStop(convs, rr.stopBeforeUnix, 1)
        all   == rr.allConversations \o SubSeq(convs, 1, stop - 1)
    IN  IF Len(convs) = 0 THEN AfterListing(rr)
        ELSE IF stop <= Len(convs)
        THEN AfterListing([rr EXCEPT !.allConversations = all, !.stopped = TRUE])
        ELSE LET next == [rr EXCEPT !.allConversations = all,
                                    !.cursor = IF Truthy(data.next_cursor)
                                               THEN data.next_cursor ELSE NULL,
                                    !.page = rr.page + 1]
             IN  IF ContinuePaging(next.cursor, next.page, maxPages)
                 THEN next
                 ELSE AfterListing(next)

\* mutant: the paginator catches the error and returns the items of the earlier pages
AfterListFailureSwallowed(rr, err) ==
    AfterListing([rr EXCEPT !.remoteError = err])

\* fetchConversationPage threw: nothing catches it up to the caller of syncConversations
AfterListFailure(rr, err) ==
    Throw([rr EXCEPT !.remoteError = err], err, "listing")

ListPage(r) ==
    /\ run[r].pc = "listing"
    /\ run' = [run EXCEPT ![r] =
                 AfterPage([@ EXCEPT !.pageRequests = @ + 1],
                           PageResponse(upstream, @.cursor), DefaultMaxPages)]
    /\ UNCHANGED <<apiVars, upstream, nullsFirst, conversations, agents, started, adds, changed>>

ListPageFail(r, res) ==
    /\ run[r].pc = "listing"
    /\ ~ResOk(res)
    /\ run' = [run EXCEPT ![r] =
                 AfterListFailure([@ EXCEPT !.pageRequests = @ + 1, !.remoteRes = res],
                                  elFetchError(res))]
    /\ UNCHANGED <<apiVars, upstream, nullsFirst, conversations, agents, started, adds, changed>>

(***************************************************************************)
(* Step 3: the detail loop.                                                *)
(***************************************************************************)
\* mutant: the slice runs to the end of newConvs
BatchToTheEnd(rr) == SubSeq(rr.allConversations, rr.i + 1, Len(rr.allConversations))

\* newConvs.slice(i, i + DETAIL_BATCH_SIZE)
Batch(rr) ==
    SubSeq(rr.allConversations, rr.i + 1,
           Min(rr.i + DETAIL_BATCH_SIZE, Len(rr.allConversations)))

\* batch.map(c => fetchConversationDetail(apiKey, c.conversation_id)): every request
\* of the batch is sent before the first await
IssueBatch(r) ==
    /\ run[r].pc = "batch"
    /\ run' = [run EXCEPT ![r] =
                 [@ EXCEPT !.pc = "await",
                           !.results = [j \in 1..Len(Batch(run[r])) |-> Pending],
                           !.detailRequests = @ + Len(Batch(run[r]))]]
    /\ UNCHANGED <<apiVars, upstream, nullsFirst, conversations, agents, started, adds, changed>>

\* a promise of the batch fulfils with the parsed body
Fulfilled(value) ==
    [state |-> "fulfilled", value |-> value, reason |-> NoError, res |-> Http(200)]
\* a promise of the batch rejects with the error elFetch threw
Rejected(err) ==
    [state |-> "rejected", value |-> NoDetail, reason |-> err, res |-> NoExchange]

DetailOk(r, j) ==
    /\ run[r].pc = "await"
    /\ j \in DOMAIN run[r].results
    /\ run[r].results[j].state = "pending"
    /\ run' = [run EXCEPT ![r].results[j] =
                 Fulfilled(DetailOf(Batch(run[r])[j].conversation_id))]
    /\ UNCHANGED <<apiVars, upstream, nullsFirst, conversations, agents, started, adds, changed>>

DetailFail(r, j, res) ==
    /\ run[r].pc = "await"
    /\ j \in DOMAIN run[r].results
    /\ run[r].results[j].state = "pending"
    /\ Batch(run[r])[j].conversation_id \in upstream.flaky
    /\ ~ResOk(res)
    /\ run' = [run EXCEPT ![r].results[j] =
                 [Rejected(elFetchError(res)) EXCEPT !.res = res]]
    /\ UNCHANGED <<apiVars, upstream, nullsFirst, conversations, agents, started, adds, changed>>

\* r.status === 'fulfilled' && r.value
HasDetail(result) == result.state = "fulfilled" /\ result.value.present

\* the inner for loop over results: one { list, detail } per item of the batch
Collected(batch, results) ==
    [j \in 1..Len(results) |->
        [list |-> batch[j],
         detail |-> IF HasDetail(results[j]) THEN results[j].value ELSE NoDetail]]

\* Step 4: detailedConvs.map(({ list, detail }) => buildRow(...))
BuildRows(rr, detailed) ==
    [k \in 1..Len(detailed) |->
        buildRow(rr.agentDbId, rr.agentElId, detailed[k].list, detailed[k].detail, rr.now)]

\* mutant: the rows are built and upserted after the first batch
CollectAndUpsertFirstBatch(rr) ==
    LET detailed == rr.detailedConvs \o Collected(Batch(rr), rr.results)
    IN  [rr EXCEPT !.detailedConvs = detailed, !.results = << >>,
                   !.pc = "upsert", !.rows = BuildRows(rr, detailed)]

\* mutant: the pacing test with <= for <
CollectAndPaceInclusive(rr) ==
    LET detailed == rr.detailedConvs \o Collected(Batch(rr), rr.results)
        failures == Cardinality({j \in DOMAIN rr.results : ~HasDetail(rr.results[j])})
        next     == [rr EXCEPT !.detailedConvs = detailed, !.results = << >>,
                               !.detailFailures = @ + failures]
    IN  IF rr.i + DETAIL_BATCH_SIZE <= Len(rr.allConversations)
        THEN [next EXCEPT !.pc = "sleep"]
        ELSE [next EXCEPT !.pc = "upsert", !.rows = BuildRows(rr, detailed)]

\* the inner for loop, then the pacing test or the end of the loop and Step 4's rows
CollectAndAdvance(rr) ==
    LET detailed == rr.detailedConvs \o Collected(Batch(rr), rr.results)
        failures == Cardinality({j \in DOMAIN rr.results : ~HasDetail(rr.results[j])})
        next     == [rr EXCEPT !.detailedConvs = detailed, !.results = << >>,
                               !.detailFailures = @ + failures]
    IN  IF rr.i + DETAIL_BATCH_SIZE < Len(rr.allConversations)
        THEN [next EXCEPT !.pc = "sleep"]
        ELSE [next EXCEPT !.pc = "upsert", !.rows = BuildRows(rr, detailed)]

\* mutant: Promise.all for Promise.allSettled, the await throws the first rejection
AfterBatchAll(rr) ==
    LET rejected == {j \in DOMAIN rr.results : rr.results[j].state = "rejected"}
    IN  IF rejected = {} THEN CollectAndAdvance(rr)
        ELSE Throw(rr, rr.results[CHOOSE j \in rejected : \A k \in rejected : j <= k].reason,
                   "detail")

\* await Promise.allSettled(...) resolves whatever the outcomes of the requests
AfterBatch(rr) == CollectAndAdvance(rr)

CollectBatch(r) ==
    /\ run[r].pc = "await"
    /\ \A j \in DOMAIN run[r].results : run[r].results[j].state # "pending"
    /\ run' = [run EXCEPT ![r] = AfterBatch(@)]
    /\ UNCHANGED <<apiVars, upstream, nullsFirst, conversations, agents, started, adds, changed>>

\* await sleep(DETAIL_BATCH_DELAY_MS), then i += DETAIL_BATCH_SIZE
Pace(r) ==
    /\ run[r].pc = "sleep"
    /\ run' = [run EXCEPT ![r] = [@ EXCEPT !.pc = "batch",
                                           !.i = @ + DETAIL_BATCH_SIZE,
                                           !.sleeps = @ + 1]]
    /\ UNCHANGED <<apiVars, upstream, nullsFirst, conversations, agents, started, adds, changed>>

(***************************************************************************)
(* Steps 4 to 6: the bulk upsert, the marker, the count and the summary.   *)
(***************************************************************************)
Upsert(r) ==
    /\ run[r].pc = "upsert"
    /\ conversations' = UpsertRows(conversations, run[r].rows)
    /\ run' = [run EXCEPT ![r] = [@ EXCEPT !.pc = "marker", !.upsertCalls = @ + 1]]
    /\ UNCHANGED <<apiVars, upstream, nullsFirst, agents, started, adds, changed>>

\* if (upsertErr) throw Errors.database(...): the statement wrote nothing
AfterUpsertFailure(rr) ==
    Throw([rr EXCEPT !.upsertFailed = TRUE, !.upsertCalls = @ + 1], ErrDatabase, "upsert")

UpsertFail(r) ==
    /\ run[r].pc = "upsert"
    /\ run' = [run EXCEPT ![r] = AfterUpsertFailure(@)]
    /\ UNCHANGED <<apiVars, upstream, nullsFirst, conversations, agents, started, adds, changed>>

\* mutant: the marker is written only when the agent has none
SetLastSyncedOnce(ag, agentDbId, now) ==
    [ag EXCEPT ![agentDbId].last_synced_at = IF @ = NULL THEN now ELSE @]

\* .from('agents').update({ last_synced_at: now }).eq('id', agentDbId)
SetLastSynced(ag, agentDbId, now) ==
    [ag EXCEPT ![agentDbId].last_synced_at = now]

UpdateMarker(r) ==
    /\ run[r].pc = "marker"
    /\ agents' = SetLastSynced(agents, run[r].agentDbId, run[r].now)
    /\ run' = [run EXCEPT ![r] = [@ EXCEPT !.pc = "count", !.markerCalls = @ + 1]]
    /\ UNCHANGED <<apiVars, upstream, nullsFirst, conversations, started, adds, changed>>

\* the update fails: its result is not looked at
UpdateMarkerFail(r) ==
    /\ run[r].pc = "marker"
    /\ run' = [run EXCEPT ![r] = [@ EXCEPT !.pc = "count", !.markerCalls = @ + 1,
                                           !.markerFailed = TRUE]]
    /\ UNCHANGED <<apiVars, upstream, nullsFirst, conversations, agents, started, adds, changed>>

\* mutant: totalCount without the || 0
SummaryRawCount(rr, count) ==
    [ newCount |-> IF rr.pc = "count0" THEN 0 ELSE Len(rr.rows),
      totalCount |-> count,
      lastSyncedAt |-> rr.now ]

\* the object syncConversations returns; count is null when the count query failed
Summary(rr, count) ==
    [ newCount |-> IF rr.pc = "count0" THEN 0 ELSE Len(rr.rows),
      totalCount |-> IF Truthy(count) THEN count ELSE 0,
      lastSyncedAt |-> rr.now ]

CountRows(r) ==
    /\ run[r].pc \in {"count0", "count"}
    /\ run' = [run EXCEPT ![r] =
                 [@ EXCEPT !.pc = "done",
                           !.summary = Summary(run[r], CountOf(conversations, run[r].agentDbId))]]
    /\ UNCHANGED <<apiVars, upstream, nullsFirst, conversations, agents, started, adds, changed>>

CountRowsFail(r) ==
    /\ run[r].pc \in {"count0", "count"}
    /\ run' = [run EXCEPT ![r] =
                 [@ EXCEPT !.pc = "done", !.countFailed = TRUE,
                           !.summary = Summary(run[r], NULL)]]
    /\ UNCHANGED <<apiVars, upstream, nullsFirst, conversations, agents, started, adds, changed>>

(***************************************************************************)
(* Specification: runs of one source-identity, one after the other.        *)
(***************************************************************************)
Next ==
    \/ UpstreamAdd
    \/ \E r \in Runs, a \in AgentIds : Start(r, a)
    \/ \E r \in Runs : ReadCheckpoint(r)
    \/ \E r \in Runs : ReadCheckpointFail(r)
    \/ \E r \in Runs : ListPage(r)
    \/ \E r \in Runs, res \in FailedExchanges : ListPageFail(r, res)
    \/ \E r \in Runs : IssueBatch(r)
    \/ \E r \in Runs, j \in 1..DETAIL_BATCH_SIZE : DetailOk(r, j)
    \/ \E r \in Runs, j \in 1..DETAIL_BATCH_SIZE, res \in FailedExchanges : DetailFail(r, j, res)
    \/ \E r \in Runs : CollectBatch(r)
    \/ \E r \in Runs : Pace(r)
    \/ \E r \in Runs : Upsert(r)
    \/ \E r \in Runs : UpsertFail(r)
    \/ \E r \in Runs : UpdateMarker(r)
    \/ \E r \in Runs : UpdateMarkerFail(r)
    \/ \E r \in Runs : CountRows(r)
    \/ \E r \in Runs : CountRowsFail(r)

Spec == Init /\ [][Next]_vars

(***************************************************************************)
(* The same runs on a store that an earlier run has filled when the        *)
(* listing held its oldest conversation only.                              *)
(***************************************************************************)
ChainWorlds ==
    UNION { { [kind |-> "finite", shape |-> sh, feed |-> Desc(n), flaky |-> fl] :
                sh \in {"nested", "top"}, fl \in {{}, {n}, {n + 1}} } :
            n \in 1..(MaxConv - 1) }
    \cup
    \* a backlog of more than one batch behind the stored conversation
    { [kind |-> "finite", shape |-> "nested", feed |-> Desc(DETAIL_BATCH_SIZE + 2),
       flaky |-> {}] }

ChainInit ==
    /\ upstream \in ChainWorlds
    /\ nullsFirst \in BOOLEAN
    /\ conversations = {buildRow("A", "el_agent", ListItemOf(1, upstream.shape), DetailOf(1), 0)}
    /\ agents = [a \in AgentIds |-> [AgentRow(a) EXCEPT !.last_synced_at = 0]]
    /\ run = [r \in Runs |-> IdleRun]
    /\ started = 0
    /\ adds = 0
    /\ changed = FALSE
    /\ profiles = NoProfiles
    /\ agent_access = {}
    /\ web = IdleWeb
    /\ probe = NoProbe
    /\ pending_invites = << >>
    /\ signup = NoSignups

ChainSpec == ChainInit /\ [][Next]_vars

(***************************************************************************)
(* Two rows of the agents table that name the same ElevenLabs agent: runs  *)
(* for either of them list the same conversations.  The listings are       *)
(* shorter than a batch and do not change.                                 *)
(***************************************************************************)
TwinAgents == {"A", "C"}

TwinWorlds ==
    { [kind |-> "finite", shape |-> "nested", feed |-> Desc(n), flaky |-> fl] :
        n \in 1..(MaxConv - 1), fl \in {{}, {1}} }

TwinInit ==
    /\ upstream \in TwinWorlds
    /\ nullsFirst = FALSE
    /\ conversations = {}
    /\ agents = [a \in TwinAgents |-> AgentRow(a)]
    /\ run = [r \in Runs |-> IdleRun]
    /\ started = 0
    /\ adds = 0
    /\ changed = FALSE
    /\ profiles = NoProfiles
    /\ agent_access = {}
    /\ web = IdleWeb
    /\ probe = NoProbe
    /\ pending_invites = << >>
    /\ signup = NoSignups

TwinNext ==
    \/ \E r \in Runs, a \in TwinAgents : Start(r, a)
    \/ \E r \in Runs : ReadCheckpoint(r)
    \/ \E r \in Runs : ReadCheckpointFail(r)
    \/ \E r \in Runs : ListPage(r)
    \/ \E r \in Runs, res \in FailedExchanges : ListPageFail(r, res)
    \/ \E r \in Runs : IssueBatch(r)
    \/ \E r \in Runs, j \in 1..DETAIL_BATCH_SIZE : DetailOk(r, j)
    \/ \E r \in Runs, j \in 1..DETAIL_BATCH_SIZE, res \in FailedExchanges : DetailFail(r, j, res)
    \/ \E r \in Runs : CollectBatch(r)
    \/ \E r \in Runs : Upsert(r)
    \/ \E r \in Runs : UpsertFail(r)
    \/ \E r \in Runs : UpdateMarker(r)
    \/ \E r \in Runs : UpdateMarkerFail(r)
    \/ \E r \in Runs : CountRows(r)
    \/ \E r \in Runs : CountRowsFail(r)

TwinSpec == TwinInit /\ [][TwinNext]_vars

(***************************************************************************)
(* Two calls of syncConversations for the same agent that overlap: nothing *)
(* in the function or in POST /sync/:agentId keeps a second call from      *)
(* starting while the first awaits.  The listings do not change and are    *)
(* shorter than a batch.                                                   *)
(***************************************************************************)
ConcRuns == {1, 2}

ConcWorlds ==
    { [kind |-> "finite", shape |-> sh, feed |-> Desc(n), flaky |-> fl] :
        sh \in {"nested", "top"}, n \in {1, 2}, fl \in {{}, {1}} }

\* the store is empty, or holds the row of conversation 1
ConcInit ==
    /\ upstream \in ConcWorlds
    /\ nullsFirst \in IF upstream.shape = "top" THEN BOOLEAN ELSE {FALSE}
    /\ conversations \in {{}, {buildRow("A", "el_agent", ListItemOf(1, upstream.shape), DetailOf(1), 0)}}
    /\ agents = [a \in AgentIds |-> AgentRow(a)]
    /\ run = [r \in ConcRuns |-> IdleRun]
    /\ started = 0
    /\ adds = 0
    /\ changed = FALSE
    /\ profiles = NoProfiles
    /\ agent_access = {}
    /\ web = IdleWeb
    /\ probe = NoProbe
    /\ pending_invites = << >>
    /\ signup = NoSignups

ConcNext ==
    \/ \E r \in ConcRuns, a \in AgentIds : Start(r, a)
    \/ \E r \in ConcRuns : ReadCheckpoint(r)
    \/ \E r \in ConcRuns : ReadCheckpointFail(r)
    \/ \E r \in ConcRuns : ListPage(r)
    \/ \E r \in ConcRuns, res \in FailedExchanges : ListPageFail(r, res)
    \/ \E r \in ConcRuns : IssueBatch(r)
    \/ \E r \in ConcRuns, j \in 1..DETAIL_BATCH_SIZE : DetailOk(r, j)
    \/ \E r \in ConcRuns, j \in 1..DETAIL_BATCH_SIZE, res \in FailedExchanges : DetailFail(r, j, res)
    \/ \E r \in ConcRuns : CollectBatch(r)
    \/ \E r \in ConcRuns : Upsert(r)
    \/ \E r \in ConcRuns : UpsertFail(r)
    \/ \E r \in ConcRuns : UpdateMarker(r)
    \/ \E r \in ConcRuns : UpdateMarkerFail(r)
    \/ \E r \in ConcRuns : CountRows(r)
    \/ \E r \in ConcRuns : CountRowsFail(r)

ConcSpec == ConcInit /\ [][ConcNext]_vars

(***************************************************************************)
(* fetchAllConversations on its own, called without a checkpoint or with   *)
(* the one Step 1 read, on listings of up to one page more than the        *)
(* ceiling.                                                                *)
(***************************************************************************)
ListWorlds ==
    { [kind |-> "paged", shape |-> sh, feed |-> Desc(n), flaky |-> {}] :
        sh \in {"nested", "top"},
        n \in {1, DefaultMaxPages - 1, DefaultMaxPages, DefaultMaxPages + 1} }
    \cup { [kind |-> "finite", shape |-> "nested", feed |-> Desc(n), flaky |-> {}] :
             n \in {0, PageSize, PageSize + 1, 2 * PageSize} }

\* the pages of a listing
PagesOf(up) ==
    IF up.kind = "paged" THEN Len(up.feed)
    ELSE (Len(up.feed) + PageSize - 1) \div PageSize

\* the store is empty, or holds the row of conversation 1
ListInit ==
    /\ upstream \in ListWorlds
    /\ nullsFirst = FALSE
    /\ conversations \in {{}, {buildRow("A", "el_agent", ListItemOf(1, "nested"), DetailOf(1), 0)}}
    /\ agents = [a \in AgentIds |-> AgentRow(a)]
    /\ run = [r \in Runs |-> IdleRun]
    /\ started = 0
    /\ adds = 0
    /\ changed = FALSE
    /\ profiles = NoProfiles
    /\ agent_access = {}
    /\ web = IdleWeb
    /\ probe = NoProbe
    /\ pending_invites = << >>
    /\ signup = NoSignups

ListNext ==
    \/ \E r \in Runs, a \in AgentIds : Start(r, a)
    \/ \E r \in Runs : ReadCheckpoint(r)
    \/ \E r \in Runs : ReadCheckpointFail(r)
    \/ \E r \in Runs : ListPage(r)
    \/ \E r \in Runs, res \in FailedExchanges : ListPageFail(r, res)

ListSpec == ListInit /\ [][ListNext]_vars

(***************************************************************************)
(* The same runs on listings of about one and two detail batches.          *)
(***************************************************************************)
BatchWorlds ==
    { [kind |-> "finite", shape |-> "nested", feed |-> Desc(n), flaky |-> fl] :
        n \in {MaxConv - 1, DETAIL_BATCH_SIZE - 1, DETAIL_BATCH_SIZE,
               DETAIL_BATCH_SIZE + 1, 2 * DETAIL_BATCH_SIZE},
        fl \in {{}, {1, DETAIL_BATCH_SIZE}} }

BatchInit ==
    /\ upstream \in BatchWorlds
    /\ nullsFirst = FALSE
    /\ conversations = {}
    /\ agents = [a \in AgentIds |-> AgentRow(a)]
    /\ run = [r \in Runs |-> IdleRun]
    /\ started = 0
    /\ adds = 0
    /\ changed = FALSE
    /\ profiles = NoProfiles
    /\ agent_access = {}
    /\ web = IdleWeb
    /\ probe = NoProbe
    /\ pending_invites = << >>
    /\ signup = NoSignups

BatchSpec == BatchInit /\ [][Next]_vars

(***************************************************************************)
(* The routes: routes/agents.js and routes/conversations.js behind         *)
(* middleware/auth.js.  One request is handled at a time; a caller is a    *)
(* user with a valid token, or NoStr for a request without one.            *)
(***************************************************************************)
\* the agents created at deployment
ApiAgents == {"A", "B"}
\* the agent ids a request may name: Z is the id of no agent
RequestAgentIds == {"A", "B", "Z"}
\* the conversation ids a request may name
RequestConvIds == {1, 2}
Callers == Users \cup {NoStr}

\* .select('id, name, ...'): the columns of a row that a query returns
Select(row, columns) == [c \in columns |-> row[c]]

\* mutant: select('*') on the agents table
AgentAllColumns ==
    {"id", "name", "agent_id", "api_key", "emoji", "color", "created_at", "last_synced_at"}

\* GET /api/agents, GET /api/agents/:id and PUT /api/agents/:id
AgentListColumns == {"id", "name", "agent_id", "emoji", "color", "created_at", "last_synced_at"}
\* POST /api/agents
AgentCreatedColumns == {"id", "name", "agent_id", "emoji", "color", "created_at"}
\* getAgentForUser
AgentLookupColumns == {"id", "name", "agent_id", "api_key", "last_synced_at"}

Ok(status, agentRows, rows, info) ==
    [status |-> status, code |-> "", agents |-> agentRows, rows |-> rows, info |-> info]
\* the error handler's response for a thrown AppError
Failure(err) ==
    [status |-> err.statusCode, code |-> err.code, agents |-> {}, rows |-> {}, info |-> << >>]

\* requireSupabaseUser: req.user, or the error passed to next()
requireSupabaseUser(caller) ==
    IF caller = NoStr
    THEN [ok |-> FALSE, error |-> ErrUnauthorized, id |-> NoStr, role |-> NoStr]
    ELSE IF profiles[caller] = NoStr
    THEN [ok |-> FALSE, error |-> ErrForbidden, id |-> NoStr, role |-> NoStr]
    ELSE [ok |-> TRUE, error |-> NoError, id |-> caller, role |-> profiles[caller]]

\* mutant: the agent_access query is filtered on the user only
HasAccessToSome(user, agentDbId) == \E q \in agent_access : q[1] = user.id

\* the agent_access row of the user for the agent exists
HasAccess(user, agentDbId) == <<user.id, agentDbId>> \in agent_access

\* getAgentForUser(agentDbId, user): the agent, or the error thrown
getAgentForUser(agentDbId, user) ==
    IF user.role = "admin"
    THEN IF agentDbId \in DOMAIN agents
         THEN [ok |-> TRUE, error |-> NoError,
               agent |-> Select(agents[agentDbId], AgentLookupColumns)]
         ELSE [ok |-> FALSE, error |-> ErrNotFound, agent |-> NoAgent]
    ELSE IF HasAccess(user, agentDbId) /\ agentDbId \in DOMAIN agents
         THEN [ok |-> TRUE, error |-> NoError,
               agent |-> Select(agents[agentDbId], AgentLookupColumns)]
         ELSE [ok |-> FALSE, error |-> ErrForbidden, agent |-> NoAgent]

\* GET /api/agents
GetAgentsResponse(user, failed) ==
    IF failed THEN Failure(ErrDatabase)
    ELSE IF user.role = "admin"
    THEN Ok(200, {Select(agents[a], AgentListColumns) : a \in DOMAIN agents}, {}, << >>)
    ELSE Ok(200, {Select(agents[p[2]], AgentListColumns) :
                    p \in {q \in agent_access : q[1] = user.id}}, {}, << >>)

\* GET /api/agents/:id
GetAgentResponse(user, id) ==
    IF id \notin DOMAIN agents THEN Failure(ErrNotFound)
    ELSE IF user.role # "admin" /\ ~HasAccess(user, id) THEN Failure(ErrForbidden)
    ELSE Ok(200, {Select(agents[id], AgentListColumns)}, {}, << >>)

\* GET /api/agents/:id/stats
GetStatsResponse(user, id) ==
    IF user.role # "admin" /\ ~HasAccess(user, id) THEN Failure(ErrForbidden)
    ELSE Ok(200, {}, {},
            [agentId |-> id,
             totalCached |-> CountOf(conversations, id),
             lastSyncedAt |-> IF id \in DOMAIN agents /\ Truthy(agents[id].last_synced_at)
                              THEN agents[id].last_synced_at ELSE NULL])

\* GET /api/conversations/:agentId, through getConversations
GetConversationsResponse(user, id) ==
    LET found == getAgentForUser(id, user)
    IN  IF ~found.ok THEN Failure(found.error)
        ELSE Ok(200, {}, RowsOf(conversations, found.agent.id),
                [agentId |-> found.agent.id,
                 total |-> CountOf(conversations, found.agent.id),
                 lastSyncedAt |-> found.agent.last_synced_at])

\* GET /api/conversations/:agentId/:conversationId
GetConversationResponse(user, id, conversationId) ==
    LET found == getAgentForUser(id, user)
        rows  == {t \in conversations : /\ found.ok
                                        /\ t.agent_db_id = found.agent.id
                                        /\ t.conversation_id = conversationId}
    IN  IF ~found.ok THEN Failure(found.error)
        ELSE IF rows = {} THEN Failure(ErrNotFound)
        ELSE Ok(200, {}, rows, << >>)

\* a request may arrive: none is being handled and no sync is running
CanAccept ==
    /\ web.pc = "idle"
    /\ \A r \in Runs : ~Active(r)

\* the request of the caller is being handled
Arrived(caller, user, route, agentId) ==
    [IdleWeb EXCEPT !.resets = web.resets, !.edits = web.edits, !.caller = caller, !.role = user.role,
                    !.route = route, !.agentId = agentId,
                    !.table0 = conversations, !.agents0 = agents, !.started0 = started]

\* the request was answered within one step
Answered(caller, user, route, agentId, response, lookups) ==
    [Arrived(caller, user, route, agentId) EXCEPT
        !.pc = "responded", !.response = response, !.lookups = lookups]

\* the response was sent: the exchange is over and the next request can be taken
Deliver ==
    /\ web.pc = "responded"
    /\ web' = [IdleWeb EXCEPT !.resets = web.resets, !.edits = web.edits]
    /\ UNCHANGED <<syncVars, profiles, agent_access, probe, pending_invites, signup>>

\* a GET handler: the middleware, then the handler's response
Get(caller, route, agentId, response, lookups) ==
    /\ CanAccept
    /\ LET user == requireSupabaseUser(caller)
       IN  web' = IF user.ok
                  THEN Answered(caller, user, route, agentId, response, lookups)
                  ELSE Answered(caller, user, route, agentId, Failure(user.error), 0)
    /\ UNCHANGED <<syncVars, profiles, agent_access, probe, pending_invites, signup>>

GetAgents(caller, failed) ==
    Get(caller, "GET /agents", "", GetAgentsResponse(requireSupabaseUser(caller), failed), 0)

GetAgent(caller, id) ==
    Get(caller, "GET /agents/:id", id, GetAgentResponse(requireSupabaseUser(caller), id), 0)

GetStats(caller, id) ==
    Get(caller, "GET /agents/:id/stats", id,
        GetStatsResponse(requireSupabaseUser(caller), id), 0)

GetConversations(caller, id) ==
    Get(caller, "GET /conversations/:agentId", id,
        GetConversationsResponse(requireSupabaseUser(caller), id), 1)

GetConversation(caller, id, conversationId) ==
    Get(caller, "GET /conversations/:agentId/:conversationId", id,
        GetConversationResponse(requireSupabaseUser(caller), id, conversationId), 1)

\* one more agent was created, updated or deleted
Edited(w) == [w EXCEPT !.edits = @ + 1]

\* requireAdmin
requireAdmin(user) == user.ok /\ user.role = "admin"

\* the error of the middleware chain requireSupabaseUser, requireAdmin
AdminGate(user) == IF ~user.ok THEN user.error ELSE ErrForbidden

\* POST /api/agents: the new agent gets the id C
CreateAgent(caller) ==
    /\ CanAccept
    /\ web.edits < MaxEdits
    /\ "C" \notin DOMAIN agents
    /\ LET user == requireSupabaseUser(caller)
       IN  IF ~requireAdmin(user)
           THEN /\ web' = Answered(caller, user, "POST /agents", "", Failure(AdminGate(user)), 0)
                /\ UNCHANGED agents
           ELSE /\ agents' = [a \in DOMAIN agents \cup {"C"} |->
                                IF a = "C" THEN AgentRow("C") ELSE agents[a]]
                /\ web' = Edited(Answered(caller, user, "POST /agents", "C",
                                          Ok(201, {Select(AgentRow("C"), AgentCreatedColumns)},
                                             {}, << >>), 0))
    /\ UNCHANGED <<upstream, nullsFirst, conversations, run, started, adds, changed,
                   profiles, agent_access, probe, pending_invites, signup>>

\* the bodies of PUT /api/agents/:id: a new name, a new API key, no field
\* (NoStr stands for undefined)
UpdateBodies == { [name |-> "Renamed", api_key |-> NoStr],
                  [name |-> NoStr, api_key |-> "key_new"],
                  [name |-> NoStr, api_key |-> NoStr] }

\* the fields of the body that are not undefined
Updates(body) == {c \in DOMAIN body : body[c] # NoStr}

\* .update(updates): the row with the fields of the body replaced
Updated(row, body) ==
    [c \in DOMAIN row |-> IF c \in Updates(body) THEN body[c] ELSE row[c]]

\* PUT /api/agents/:id
UpdateAgent(caller, id, body) ==
    /\ CanAccept
    /\ web.edits < MaxEdits
    /\ LET user == requireSupabaseUser(caller)
           route == "PUT /agents/:id"
       IN  IF ~requireAdmin(user)
           THEN /\ web' = Answered(caller, user, route, id, Failure(AdminGate(user)), 0)
                /\ UNCHANGED agents
           ELSE IF Updates(body) = {}
           THEN /\ web' = Answered(caller, user, route, id, Failure(ErrBadRequest), 0)
                /\ UNCHANGED agents
           ELSE IF id \notin DOMAIN agents
           \* .single() on no row reports an error
           THEN /\ web' = Answered(caller, user, route, id, Failure(ErrDatabase), 0)
                /\ UNCHANGED agents
           ELSE /\ agents' = [agents EXCEPT ![id] = Updated(@, body)]
                /\ web' = Edited(Answered(caller, user, route, id,
                                          Ok(200, {Select(Updated(agents[id], body),
                                                          AgentListColumns)}, {}, << >>), 0))
    /\ UNCHANGED <<upstream, nullsFirst, conversations, run, started, adds, changed,
                   profiles, agent_access, probe, pending_invites, signup>>

\* DELETE /api/agents/:id: the delete cascades to agent_access and conversations
DeleteAgent(caller, id) ==
    /\ CanAccept
    /\ web.edits < MaxEdits
    /\ LET user == requireSupabaseUser(caller)
           route == "DELETE /agents/:id"
       IN  IF ~requireAdmin(user)
           THEN /\ web' = Answered(caller, user, route, id, Failure(AdminGate(user)), 0)
                /\ UNCHANGED <<agents, conversations, agent_access>>
           ELSE /\ agents' = [a \in DOMAIN agents \ {id} |-> agents[a]]
                /\ conversations' = conversations \ RowsOf(conversations, id)
                /\ agent_access' = {p \in agent_access : p[2] # id}
                /\ web' = Edited(Answered(caller, user, route, id, Ok(200, {}, {}, << >>), 0))
    /\ UNCHANGED <<upstream, nullsFirst, run, started, adds, changed, profiles, probe, pending_invites, signup>>

\* mutant: no test of the role before the agent lookup
SyncPreludeNoRoleTest(user, id) ==
    LET found == getAgentForUser(id, user)
    IN  IF ~found.ok THEN [ok |-> FALSE, error |-> found.error, agent |-> NoAgent, lookups |-> 1]
        ELSE IF ~TruthyStr(found.agent.api_key)
        THEN [ok |-> FALSE, error |-> ErrBadRequest, agent |-> found.agent, lookups |-> 1]
        ELSE [ok |-> TRUE, error |-> NoError, agent |-> found.agent, lookups |-> 1]

\* POST /api/conversations/sync/:agentId up to the call of syncConversations: the role
\* test, the agent lookup, the test of the API key
SyncPrelude(user, id) ==
    IF user.role # "admin"
    THEN [ok |-> FALSE, error |-> ErrForbidden, agent |-> NoAgent, lookups |-> 0]
    ELSE LET found == getAgentForUser(id, user)
         IN  IF ~found.ok
             THEN [ok |-> FALSE, error |-> found.error, agent |-> NoAgent, lookups |-> 1]
             ELSE IF ~TruthyStr(found.agent.api_key)
             THEN [ok |-> FALSE, error |-> ErrBadRequest, agent |-> found.agent, lookups |-> 1]
             ELSE [ok |-> TRUE, error |-> NoError, agent |-> found.agent, lookups |-> 1]

\* the request is rejected by the middleware or before syncConversations is called
PostSyncRejected(caller, id) ==
    /\ CanAccept
    /\ LET user == requireSupabaseUser(caller)
           pre  == SyncPrelude(user, id)
           route == "POST /conversations/sync/:agentId"
       IN  /\ ~user.ok \/ ~pre.ok
           /\ web' = IF ~user.ok
                     THEN Answered(caller, user, route, id, Failure(user.error), 0)
                     ELSE Answered(caller, user, route, id, Failure(pre.error), pre.lookups)
    /\ UNCHANGED <<syncVars, profiles, agent_access, probe, pending_invites, signup>>

\* syncConversations(agent.id, agent.agent_id, agent.api_key) is called
PostSyncCall(caller, id, r) ==
    /\ CanAccept
    /\ LET user == requireSupabaseUser(caller)
           pre  == SyncPrelude(user, id)
       IN  /\ user.ok /\ pre.ok
           /\ Invoke(r, pre.agent.id)
           /\ web' = [Arrived(caller, user, "POST /conversations/sync/:agentId", id) EXCEPT
                         !.pc = "syncing", !.agent = pre.agent,
                         !.lookups = pre.lookups, !.invoked = TRUE]
    /\ UNCHANGED <<profiles, agent_access, probe, pending_invites, signup>>

\* syncConversations returned or threw: the response, and the call's frame is gone
PostSyncRespond(r) ==
    /\ web.pc = "syncing"
    /\ run[r].pc \in {"done", "failed"}
    /\ run' = [run EXCEPT ![r] = IdleRun]
    /\ web' = [web EXCEPT
                 !.pc = "responded",
                 !.response =
                    IF run[r].pc = "failed" THEN Failure(run[r].error)
                    ELSE Ok(200, {}, {},
                            [newCount |-> run[r].summary.newCount,
                             totalCount |-> run[r].summary.totalCount,
                             lastSyncedAt |-> run[r].summary.lastSyncedAt,
                             agentId |-> web.agent.id,
                             agentName |-> web.agent.name])]
    /\ UNCHANGED <<upstream, nullsFirst, conversations, agents, started, adds, changed,
                   profiles, agent_access, probe, pending_invites, signup>>

\* DELETE /api/conversations/reset/:agentId up to the delete: the role test and the
\* agent lookup
ResetPrelude(user, id) ==
    IF user.role # "admin"
    THEN [ok |-> FALSE, error |-> ErrForbidden, agent |-> NoAgent, lookups |-> 0]
    ELSE LET found == getAgentForUser(id, user)
         IN  [ok |-> found.ok, error |-> found.error, agent |-> found.agent, lookups |-> 1]

ResetRejected(caller, id) ==
    /\ CanAccept
    /\ LET user == requireSupabaseUser(caller)
           pre  == ResetPrelude(user, id)
           route == "DELETE /conversations/reset/:agentId"
       IN  /\ ~user.ok \/ ~pre.ok
           /\ web' = IF ~user.ok
                     THEN Answered(caller, user, route, id, Failure(user.error), 0)
                     ELSE Answered(caller, user, route, id, Failure(pre.error), pre.lookups)
    /\ UNCHANGED <<syncVars, profiles, agent_access, probe, pending_invites, signup>>

\* the agent is found: the delete is sent
ResetBegin(caller, id) ==
    /\ CanAccept
    /\ web.resets < MaxResets
    /\ LET user == requireSupabaseUser(caller)
           pre  == ResetPrelude(user, id)
       IN  /\ user.ok /\ pre.ok
           /\ web' = [Arrived(caller, user, "DELETE /conversations/reset/:agentId", id) EXCEPT
                         !.pc = "reset_delete", !.resets = @ + 1, !.agent = pre.agent,
                         !.lookups = pre.lookups]
    /\ UNCHANGED <<syncVars, profiles, agent_access, probe, pending_invites, signup>>

\* mutant: the delete is filtered on the rows of the other agents
WithoutRowsOfOthers(table, agentDbId) == {t \in table : t.agent_db_id = agentDbId}

\* .from('conversations').delete().eq('agent_db_id', agent.id)
WithoutRowsOf(table, agentDbId) == {t \in table : t.agent_db_id # agentDbId}

ResetDelete ==
    /\ web.pc = "reset_delete"
    /\ conversations' = WithoutRowsOf(conversations, web.agent.id)
    /\ web' = [web EXCEPT !.pc = "reset_marker"]
    /\ UNCHANGED <<upstream, nullsFirst, agents, run, started, adds, changed,
                   profiles, agent_access, probe, pending_invites, signup>>

\* if (error) throw Errors.database(...)
ResetDeleteFail ==
    /\ web.pc = "reset_delete"
    /\ web' = [web EXCEPT !.pc = "responded", !.response = Failure(ErrDatabase)]
    /\ UNCHANGED <<syncVars, profiles, agent_access, probe, pending_invites, signup>>

\* the response of a reset
ResetDone == Ok(200, {}, {}, [agentId |-> web.agent.id, message |-> web.agent.name])

\* .from('agents').update({ last_synced_at: null }).eq('id', agent.id)
ResetMarker ==
    /\ web.pc = "reset_marker"
    /\ agents' = [agents EXCEPT ![web.agent.id].last_synced_at = NULL]
    /\ web' = [web EXCEPT !.pc = "responded", !.response = ResetDone]
    /\ UNCHANGED <<upstream, nullsFirst, conversations, run, started, adds, changed,
                   profiles, agent_access, probe, pending_invites, signup>>

\* the update fails: its result is not looked at
ResetMarkerFail ==
    /\ web.pc = "reset_marker"
    /\ web' = [web EXCEPT !.pc = "responded", !.response = ResetDone]
    /\ UNCHANGED <<syncVars, profiles, agent_access, probe, pending_invites, signup>>

(***************************************************************************)
(* Specification of the routes: requests one after the other, a sync       *)
(* request running syncConversations to its end.  The upstream holds fewer *)
(* conversations than a detail batch, so no run pauses between batches.    *)
(***************************************************************************)
ApiWorlds ==
    { [kind |-> "finite", shape |-> "nested", feed |-> Desc(2), flaky |-> {1}] }

\* the exchanges in which a request to the upstream fails while a route is syncing
ApiFailedExchanges == {Http(404)}

\* ann is the admin; bob is a client with access to some of the agents, or has no
\* profile
ApiInit ==
    /\ upstream \in ApiWorlds
    /\ nullsFirst = FALSE
    /\ conversations = {}
    /\ agents = [a \in ApiAgents |-> AgentRow(a)]
    /\ run = [r \in Runs |-> IdleRun]
    /\ started = 0
    /\ adds = 0
    /\ changed = FALSE
    /\ \/ /\ profiles = [u \in Users |-> IF u = "ann" THEN "admin" ELSE "client"]
          /\ agent_access \in SUBSET ({"bob"} \X ApiAgents)
       \/ /\ profiles = [u \in Users |-> IF u = "ann" THEN "admin" ELSE NoStr]
          /\ agent_access = {}
    /\ web = IdleWeb
    /\ probe = NoProbe
    /\ pending_invites = << >>
    /\ signup = NoSignups

ApiNext ==
    \/ \E c \in Callers, failed \in BOOLEAN : GetAgents(c, failed)
    \/ \E c \in Callers, id \in RequestAgentIds : GetAgent(c, id)
    \/ \E c \in Callers, id \in RequestAgentIds : GetStats(c, id)
    \/ \E c \in Callers, id \in RequestAgentIds : GetConversations(c, id)
    \/ \E c \in Callers, id \in RequestAgentIds, k \in RequestConvIds : GetConversation(c, id, k)
    \/ \E c \in Callers : CreateAgent(c)
    \/ \E c \in Callers, id \in RequestAgentIds, body \in UpdateBodies : UpdateAgent(c, id, body)
    \/ \E c \in Callers, id \in RequestAgentIds : DeleteAgent(c, id)
    \/ \E c \in Callers, id \in RequestAgentIds : PostSyncRejected(c, id)
    \/ \E c \in Callers, id \in RequestAgentIds, r \in Runs : PostSyncCall(c, id, r)
    \/ \E r \in Runs : PostSyncRespond(r)
    \/ \E c \in Callers, id \in RequestAgentIds : ResetRejected(c, id)
    \/ \E c \in Callers, id \in RequestAgentIds : ResetBegin(c, id)
    \/ ResetDelete
    \/ ResetDeleteFail
    \/ ResetMarker
    \/ ResetMarkerFail
    \/ Deliver
    \/ \E r \in Runs : ReadCheckpoint(r)
    \/ \E r \in Runs : ReadCheckpointFail(r)
    \/ \E r \in Runs : ListPage(r)
    \/ \E r \in Runs, res \in ApiFailedExchanges : ListPageFail(r, res)
    \/ \E r \in Runs : IssueBatch(r)
    \/ \E r \in Runs, j \in 1..DETAIL_BATCH_SIZE : DetailOk(r, j)
    \/ \E r \in Runs, j \in 1..DETAIL_BATCH_SIZE, res \in ApiFailedExchanges :
            DetailFail(r, j, res)
    \/ \E r \in Runs : CollectBatch(r)
    \/ \E r \in Runs : Upsert(r)
    \/ \E r \in Runs : UpsertFail(r)
    \/ \E r \in Runs : UpdateMarker(r)
    \/ \E r \in Runs : UpdateMarkerFail(r)
    \/ \E r \in Runs : CountRows(r)
    \/ \E r \in Runs : CountRowsFail(r)

ApiSpec == ApiInit /\ [][ApiNext]_vars

(***************************************************************************)
(* A reset request that is handled while a call of syncConversations for   *)
(* the same agent awaits: the server takes requests while others are in    *)
(* flight and neither route locks the agent.  The store holds the row of   *)
(* the oldest conversation, the listing a newer one as well.               *)
(***************************************************************************)
RaceWorlds ==
    { [kind |-> "finite", shape |-> sh, feed |-> Desc(2), flaky |-> fl] :
        sh \in {"nested", "top"}, fl \in {{}, {2}} }

RaceInit ==
    /\ upstream \in RaceWorlds
    /\ nullsFirst \in IF upstream.shape = "top" THEN BOOLEAN ELSE {FALSE}
    /\ conversations = {buildRow("A", "el_agent", ListItemOf(1, upstream.shape), DetailOf(1), 0)}
    /\ agents = [a \in AgentIds |-> [AgentRow(a) EXCEPT !.last_synced_at = 0]]
    /\ run = [r \in Runs |-> IdleRun]
    /\ started = 0
    /\ adds = 0
    /\ changed = FALSE
    /\ profiles = [u \in Users |-> IF u = "ann" THEN "admin" ELSE "client"]
    /\ agent_access = {}
    /\ web = IdleWeb
    /\ probe = NoProbe
    /\ pending_invites = << >>
    /\ signup = NoSignups

\* DELETE /reset/:agentId arrives, whether or not a run is under way: the role test
\* and the agent lookup pass and the delete is sent
ResetArrives(caller, id) ==
    /\ web.pc = "idle"
    /\ web.resets < MaxResets
    /\ LET user == requireSupabaseUser(caller)
           pre  == ResetPrelude(user, id)
       IN  /\ user.ok /\ pre.ok
           /\ web' = [Arrived(caller, user, "DELETE /conversations/reset/:agentId", id) EXCEPT
                         !.pc = "reset_delete", !.resets = @ + 1, !.agent = pre.agent,
                         !.lookups = pre.lookups]
    /\ UNCHANGED <<syncVars, profiles, agent_access, probe, pending_invites, signup>>

RaceNext ==
    \/ \E r \in Runs, a \in AgentIds : Start(r, a)
    \/ \E r \in Runs : ReadCheckpoint(r)
    \/ \E r \in Runs : ReadCheckpointFail(r)
    \/ \E r \in Runs : ListPage(r)
    \/ \E r \in Runs, res \in ApiFailedExchanges : ListPageFail(r, res)
    \/ \E r \in Runs : IssueBatch(r)
    \/ \E r \in Runs, j \in 1..DETAIL_BATCH_SIZE : DetailOk(r, j)
    \/ \E r \in Runs, j \in 1..DETAIL_BATCH_SIZE, res \in ApiFailedExchanges : DetailFail(r, j, res)
    \/ \E r \in Runs : CollectBatch(r)
    \/ \E r \in Runs : Upsert(r)
    \/ \E r \in Runs : UpsertFail(r)
    \/ \E r \in Runs : UpdateMarker(r)
    \/ \E r \in Runs : UpdateMarkerFail(r)
    \/ \E r \in Runs : CountRows(r)
    \/ \E r \in Runs : CountRowsFail(r)
    \/ \E c \in Callers, id \in AgentIds : ResetArrives(c, id)
    \/ ResetDelete
    \/ ResetDeleteFail
    \/ ResetMarker
    \/ ResetMarkerFail
    \/ Deliver

RaceSpec == RaceInit /\ [][RaceNext]_vars

(***************************************************************************)
(* Signing up: POST /api/auth/signup on a database that has the triggers   *)
(* of the setup script.  A user's email is the user's name.                *)
(***************************************************************************)
Roles == {"admin", "client"}

\* select role from pending_invites where email = ... order by created_at desc limit 1
RECURSIVE LatestInvite(_, _)
LatestInvite(invites, email) ==
    IF Len(invites) = 0 THEN NoStr
    ELSE IF invites[Len(invites)].email = email THEN invites[Len(invites)].role
    ELSE LatestInvite(SubSeq(invites, 1, Len(invites) - 1), email)

\* delete from pending_invites where email = ...
RECURSIVE WithoutInvitesOf(_, _)
WithoutInvitesOf(invites, email) ==
    IF Len(invites) = 0 THEN << >>
    ELSE LET rest == WithoutInvitesOf(Tail(invites), email)
         IN  IF Head(invites).email = email THEN rest ELSE <<Head(invites)>> \o rest

\* select count(*) from public.profiles
ProfileCount(table) == Cardinality({u \in DOMAIN table : table[u] # NoStr})

\* handle_new_user: the first ever user becomes admin, everyone else client
TriggerRole(table) == IF ProfileCount(table) = 0 THEN "admin" ELSE "client"

\* const role = count === 0 ? 'admin' : 'client'
RouteRole(count) == IF count = 0 THEN "admin" ELSE "client"

\* an invite is recorded for an email (Admin Panel -> Invite User)
Invite(email, role) ==
    /\ Len(pending_invites) < MaxInvites
    /\ pending_invites' = Append(pending_invites, [email |-> email, role |-> role])
    /\ signup' = [signup EXCEPT ![email].invitedSince = (signup[email].pc # "idle")]
    /\ UNCHANGED <<syncVars, profiles, agent_access, web, probe>>

\* the body lacks the email or the password, or the password is shorter than 8
\* characters, or createUser reports an error (the email is registered already)
SignupRejected(u) ==
    /\ signup[u].pc = "idle"
    /\ signup' = [signup EXCEPT ![u] =
                    [NoSignup EXCEPT !.pc = "done", !.response = Failure(ErrBadRequest),
                                     !.invited0 = LatestInvite(pending_invites, u)]]
    /\ UNCHANGED <<syncVars, profiles, agent_access, web, probe, pending_invites>>

\* sbAdmin.auth.admin.createUser: the insert into auth.users fires handle_new_user,
\* whose insert into profiles fires apply_pending_invite
SignupCreateUser(u) ==
    /\ signup[u].pc = "idle"
    /\ profiles[u] = NoStr
    /\ LET pending_role == LatestInvite(pending_invites, u)
       IN  /\ profiles' = [profiles EXCEPT ![u] =
                              IF pending_role # NoStr THEN pending_role
                              ELSE TriggerRole(profiles)]
           /\ pending_invites' = IF pending_role # NoStr
                                 THEN WithoutInvitesOf(pending_invites, u)
                                 ELSE pending_invites
           /\ signup' = [signup EXCEPT ![u] =
                           [NoSignup EXCEPT !.pc = "count",
                                            !.first = (ProfileCount(profiles) = 0),
                                            !.invited0 = pending_role]]
    /\ UNCHANGED <<syncVars, agent_access, web, probe>>

\* the count of the profiles; on an error count is null
SignupCount(u, failed) ==
    /\ signup[u].pc = "count"
    /\ signup' = [signup EXCEPT ![u].pc = "upsert",
                                ![u].count = IF failed THEN NULL ELSE ProfileCount(profiles),
                                ![u].role = RouteRole(IF failed THEN NULL
                                                      ELSE ProfileCount(profiles))]
    /\ UNCHANGED <<syncVars, profiles, agent_access, web, probe, pending_invites>>

\* .from('profiles').upsert({ id, email, full_name, role }); its result is not read
SignupUpsert(u, failed) ==
    /\ signup[u].pc = "upsert"
    /\ profiles' = IF failed THEN profiles ELSE [profiles EXCEPT ![u] = signup[u].role]
    /\ signup' = [signup EXCEPT ![u].pc = "invite"]
    /\ UNCHANGED <<syncVars, agent_access, web, probe, pending_invites>>

\* the newest invite of the email; on an error invite is null
SignupReadInvite(u, failed) ==
    /\ signup[u].pc = "invite"
    /\ LET invite == IF failed THEN NoStr ELSE LatestInvite(pending_invites, u)
       IN  signup' = [signup EXCEPT ![u].invite = invite,
                                    ![u].pc = IF invite # NoStr THEN "apply" ELSE "respond"]
    /\ UNCHANGED <<syncVars, profiles, agent_access, web, probe, pending_invites>>

\* if (invite): the update of the role; its result is not read
SignupApplyInvite(u, failed) ==
    /\ signup[u].pc = "apply"
    /\ profiles' = IF failed THEN profiles ELSE [profiles EXCEPT ![u] = signup[u].invite]
    /\ signup' = [signup EXCEPT ![u].pc = "delete"]
    /\ UNCHANGED <<syncVars, agent_access, web, probe, pending_invites>>

\* the delete of the email's invites; its result is not read
SignupDeleteInvites(u, failed) ==
    /\ signup[u].pc = "delete"
    /\ pending_invites' = IF failed THEN pending_invites
                          ELSE WithoutInvitesOf(pending_invites, u)
    /\ signup' = [signup EXCEPT ![u].pc = "respond"]
    /\ UNCHANGED <<syncVars, profiles, agent_access, web, probe>>

\* res.status(201).json({ ..., role: invite?.role || role })
SignupRespond(u) ==
    /\ signup[u].pc = "respond"
    /\ signup' = [signup EXCEPT
                    ![u].pc = "done",
                    ![u].response =
                        Ok(201, {}, {},
                           [userId |-> u, email |-> u,
                            role |-> IF signup[u].invite # NoStr THEN signup[u].invite
                                     ELSE signup[u].role])]
    /\ UNCHANGED <<syncVars, profiles, agent_access, web, probe, pending_invites>>

\* nobody has signed up; invites may have been recorded ahead
AuthInit ==
    /\ upstream = [kind |-> "finite", shape |-> "nested", feed |-> << >>, flaky |-> {}]
    /\ nullsFirst = FALSE
    /\ conversations = {}
    /\ agents = [a \in AgentIds |-> AgentRow(a)]
    /\ run = [r \in Runs |-> IdleRun]
    /\ started = 0
    /\ adds = 0
    /\ changed = FALSE
    /\ profiles = NoProfiles
    /\ agent_access = {}
    /\ web = IdleWeb
    /\ probe = NoProbe
    /\ pending_invites = << >>
    /\ signup = NoSignups

AuthNext ==
    \/ \E u \in Users, role \in Roles : Invite(u, role)
    \/ \E u \in Users : SignupRejected(u)
    \/ \E u \in Users : SignupCreateUser(u)
    \/ \E u \in Users, failed \in BOOLEAN : SignupCount(u, failed)
    \/ \E u \in Users, failed \in BOOLEAN : SignupUpsert(u, failed)
    \/ \E u \in Users, failed \in BOOLEAN : SignupReadInvite(u, failed)
    \/ \E u \in Users, failed \in BOOLEAN : SignupApplyInvite(u, failed)
    \/ \E u \in Users, failed \in BOOLEAN : SignupDeleteInvites(u, failed)
    \/ \E u \in Users : SignupRespond(u)

AuthSpec == AuthInit /\ [][AuthNext]_vars

(***************************************************************************)
(* Signups in flight together, with the insert into auth.users in two      *)
(* steps: handle_new_user counts the profiles it can see, which are the    *)
(* committed ones, and its row becomes visible to others when the          *)
(* transaction of createUser commits.  Nothing in the function locks the   *)
(* table.  No invite is recorded.                                          *)
(***************************************************************************)
\* createUser begins: handle_new_user evaluates (select count(*) from profiles) = 0
SignupCreateBegin(u) ==
    /\ signup[u].pc = "idle"
    /\ profiles[u] = NoStr
    /\ signup' = [signup EXCEPT ![u] =
                    [NoSignup EXCEPT !.pc = "creating",
                                     !.first = (ProfileCount(profiles) = 0),
                                     !.invited0 = LatestInvite(pending_invites, u)]]
    /\ UNCHANGED <<syncVars, profiles, agent_access, web, probe, pending_invites>>

\* createUser returns: the profile the trigger inserted is committed
SignupCreateCommit(u) ==
    /\ signup[u].pc = "creating"
    /\ profiles' = [profiles EXCEPT ![u] = IF signup[u].first THEN "admin" ELSE "client"]
    /\ signup' = [signup EXCEPT ![u].pc = "count"]
    /\ UNCHANGED <<syncVars, agent_access, web, probe, pending_invites>>

AuthRaceNext ==
    \/ \E u \in Users : SignupCreateBegin(u)
    \/ \E u \in Users : SignupCreateCommit(u)
    \/ \E u \in Users, failed \in BOOLEAN : SignupCount(u, failed)
    \/ \E u \in Users, failed \in BOOLEAN : SignupUpsert(u, failed)
    \/ \E u \in Users, failed \in BOOLEAN : SignupReadInvite(u, failed)
    \/ \E u \in Users : SignupRespond(u)

AuthRaceSpec == AuthInit /\ [][AuthRaceNext]_vars

(***************************************************************************)
(* buildRow on its own: the list items and the detail payloads it may be   *)
(* handed, a detail of null and payloads without status, transcript,       *)
(* metadata, cost, charging block or analysis included.                    *)
(***************************************************************************)
ProbeListItems ==
    { [ conversation_id |-> 1, status |-> st, metadata |-> m,
        start_time_unix_secs |-> NULL, call_duration_secs |-> NULL ] :
        st \in {NoStr, "processing"},
        m \in {NoMeta, EmptyMeta,
               [EmptyMeta EXCEPT !.start_time_unix_secs = 7, !.call_duration_secs = 9]} }
    \cup {ListItemOf(1, "top")}

ProbeMetas ==
    { NoMeta, EmptyMeta,
      [EmptyMeta EXCEPT !.start_time_unix_secs = 0, !.call_duration_secs = 0],
      [EmptyMeta EXCEPT !.start_time_unix_secs = 3, !.call_duration_secs = 31, !.cost = 0],
      [EmptyMeta EXCEPT !.start_time_unix_secs = 3, !.call_duration_secs = 31, !.cost = 5,
                        !.charging = [present |-> TRUE, llm_charge |-> 2, llm_price |-> 1]] }

ProbeDetails ==
    {NoDetail} \cup
    { [ present |-> TRUE, status |-> st, transcript |-> tr, metadata |-> m,
        analysis |-> an, dynamic_variables |-> << >> ] :
        st \in {NoStr, "", "done"},
        tr \in {NoTranscript, << >>, << Turn("agent", "Hey Ana!") >>},
        m \in ProbeMetas,
        an \in {NoAnalysis, [NoAnalysis EXCEPT !.present = TRUE,
                                                !.transcript_summary = "asked about leave"]} }

InitRow ==
    /\ probe \in { [built |-> FALSE, listItem |-> li, detail |-> d] :
                      li \in ProbeListItems, d \in ProbeDetails }
    /\ upstream = [kind |-> "finite", shape |-> "nested", feed |-> << >>, flaky |-> {}]
    /\ nullsFirst = FALSE
    /\ conversations = {}
    /\ agents = [a \in AgentIds |-> AgentRow(a)]
    /\ run = [r \in Runs |-> IdleRun]
    /\ started = 0
    /\ adds = 0
    /\ changed = FALSE
    /\ profiles = NoProfiles
    /\ agent_access = {}
    /\ web = IdleWeb
    /\ pending_invites = << >>
    /\ signup = NoSignups

\* buildRow(agentDbId, agentElId, listItem, detail)
BuildProbe ==
    /\ ~probe.built
    /\ probe' = [ built |-> TRUE, listItem |-> probe.listItem, detail |-> probe.detail,
                  row |-> buildRow("A", "el_agent", probe.listItem, probe.detail, 1) ]
    /\ UNCHANGED <<syncVars, profiles, agent_access, web, pending_invites, signup>>

RowNext == BuildProbe

RowSpec == InitRow /\ [][RowNext]_vars

(***************************************************************************)
(* extractUserName on its own: payloads with up to two dynamic variables   *)
(* and transcripts of up to 21 turns.                                      *)
(***************************************************************************)
ProbeVariables ==
    { DynVar("user_name", "string", "Sam", 3),
      DynVar("user_name", "string", "", 0),
      DynVar("user_name", "string", "a name of 45 characters", 45),
      DynVar("customer_name", "string", "Ana", 3),
      DynVar("customer_name", "string", "a name of 39 characters", 39),
      DynVar("customer_name", "string", "a name of 40 characters", 40),
      DynVar("caller_name", "string", "", 0),
      DynVar("caller_name", "number", "7", 1),
      DynVar("UserId", "string", "u-17", 4),
      DynVar("agent_mode", "string", "hr", 2) }

\* the dynamic variables of a payload, in the order of its keys
ProbeVariableLists ==
    {<< >>} \cup { <<v>> : v \in ProbeVariables }
            \cup { p \in { <<v, w>> : v \in ProbeVariables, w \in ProbeVariables } :
                      p[1].key # p[2].key }

\* 21 turns of the user with one turn replaced
LongTranscript(pos, turn) ==
    [k \in 1..21 |-> IF k = pos THEN turn ELSE Turn("user", "What is the leave policy?")]

ProbeTranscripts ==
    { << >>,
      << Turn("agent", "Hello Sam, how can I help?"), Turn("agent", "Hey Ana!") >>,
      << Turn("user", "Hey Ana!"), Turn("agent", "Hello Sam, how can I help?") >> }
    \cup { LongTranscript(pos, Turn(role, message)) :
             pos \in {1, 20, 21}, role \in {"agent", "user"},
             message \in {"Hey Ana!", "hi there", NoStr} }

InitName ==
    /\ probe \in UNION {
            { [built |-> FALSE, detail |-> d, transcript |-> tr] :
                d \in {NoDetail} \cup
                      { [ present |-> TRUE, status |-> "done", transcript |-> tr,
                          metadata |-> EmptyMeta, analysis |-> NoAnalysis,
                          dynamic_variables |-> dv ] : dv \in ProbeVariableLists } } :
            tr \in ProbeTranscripts }
    /\ upstream = [kind |-> "finite", shape |-> "nested", feed |-> << >>, flaky |-> {}]
    /\ nullsFirst = FALSE
    /\ conversations = {}
    /\ agents = [a \in AgentIds |-> AgentRow(a)]
    /\ run = [r \in Runs |-> IdleRun]
    /\ started = 0
    /\ adds = 0
    /\ changed = FALSE
    /\ profiles = NoProfiles
    /\ agent_access = {}
    /\ web = IdleWeb
    /\ pending_invites = << >>
    /\ signup = NoSignups

\* extractUserName(detail, transcript)
NameProbe ==
    /\ ~probe.built
    /\ probe' = [ built |-> TRUE, detail |-> probe.detail, transcript |-> probe.transcript,
                  name |-> extractUserName(probe.detail, probe.transcript) ]
    /\ UNCHANGED <<syncVars, profiles, agent_access, web, pending_invites, signup>>

NameNext == NameProbe

NameSpec == InitName /\ [][NameNext]_vars

(***************************************************************************)
(* Properties.                                                             *)
(***************************************************************************)
\* the run has returned from fetchAllConversations
Listed(rr) == rr.pc \in {"count0", "batch", "await", "sleep", "upsert", "marker", "count", "done"}
            \/ (rr.pc = "failed" /\ rr.errAt \in {"detail", "upsert"})

\* the rows of the run are built
Built(rr) == rr.pc \in {"upsert", "marker", "count", "done"}
           \/ (rr.pc = "failed" /\ rr.errAt = "upsert")

\* the values a list item carries, in its metadata block or on the item itself
ListStart(conv) == IF conv.metadata.present THEN conv.metadata.start_time_unix_secs
                   ELSE conv.start_time_unix_secs
ListDuration(conv) == IF conv.metadata.present THEN conv.metadata.call_duration_secs
                      ELSE conv.call_duration_secs

\* C1: a run that follows a run which returned a summary, with nothing added upstream
\* in between, returns newCount = 0 and the totalCount of the run before.  (Stated
\* for the runs whose count queries answered.)
C1_SecondRunFindsNothing ==
    \A r \in Runs :
        (/\ run[r].pc = "done"
         /\ run[r].prev # NoSummary
         /\ run[r].static
         /\ ~run[r].countFailed /\ ~run[r].prevCountFailed)
        => /\ run[r].summary.newCount = 0
           /\ run[r].summary.totalCount = run[r].prev.totalCount

\* C2: in a run with checkpoint T, every item the paginator has collected starts
\* after T and no row built starts at or before T.
C2_EarlyStop ==
    \A r \in Runs :
        run[r].stopBeforeUnix # NULL =>
            /\ \A k \in 1..Len(run[r].allConversations) :
                   ItemStartTime(run[r].allConversations[k]) > run[r].stopBeforeUnix
            /\ \A k \in 1..Len(run[r].rows) :
                   \/ run[r].rows[k].start_time_unix = NULL
                   \/ run[r].rows[k].start_time_unix > run[r].stopBeforeUnix

\* C2, witness: a run with a checkpoint has built the rows of the items it found
C2_Witness ==
    \E r \in Runs :
        /\ run[r].stopBeforeUnix # NULL
        /\ Built(run[r])
        /\ Len(run[r].rows) > 0
        /\ Len(run[r].rows) = Len(run[r].allConversations)

\* C3: once the rows are built, there is one row per item found; the row of an item
\* whose detail request failed has the list item's status, start time and duration
\* and an empty transcript; the row of any other item is built from its own detail.
C3_DegradedRowKeepsListValues ==
    \A r \in Runs :
        Built(run[r]) =>
            /\ Len(run[r].rows) = Len(run[r].allConversations)
            /\ \A k \in 1..Len(run[r].rows) :
                 LET row  == run[r].rows[k]
                     item == run[r].allConversations[k]
                     det  == run[r].detailedConvs[k].detail
                 IN  /\ row.conversation_id = item.conversation_id
                     /\ det.present =>
                          /\ det = DetailOf(item.conversation_id)
                          /\ row.transcript = det.transcript
                          /\ row.cost = det.metadata.cost
                     /\ ~det.present =>
                          /\ row.status = item.status
                          /\ row.start_time_unix = ListStart(item)
                          /\ row.duration_secs = ListDuration(item)
                          /\ row.transcript = << >>

\* C4: a run in which a request to the listing endpoint failed has ended with that
\* remote error and no summary, and has left the conversations and the agents table
\* (the last-synced marker) as they were at the call.
C4_ListingFailureAborts ==
    \A r \in Runs :
        run[r].remoteError # NoError =>
            /\ run[r].pc = "failed"
            /\ run[r].errAt = "listing"
            /\ run[r].error = run[r].remoteError
            /\ run[r].error.code \in {"ELEVENLABS_ERROR", "NOT_FOUND", "RATE_LIMITED"}
            /\ run[r].summary = NoSummary
            /\ conversations = run[r].table0
            /\ agents = run[r].agents0

\* C4, witness: the request for a later page failed after items were collected, in a
\* run over a store that already holds rows
C4_Witness ==
    \E r \in Runs :
        /\ run[r].remoteError # NoError
        /\ run[r].pageRequests >= 2
        /\ Len(run[r].allConversations) > 0
        /\ run[r].table0 # {}

\* C5: after the upsert of a run, the store holds for every row of the run exactly one
\* row with its conversation_id, and that row is the row of the run in every field.
C5_UpsertReplaces ==
    \A r \in Runs :
        run[r].pc \in {"marker", "count", "done"} =>
            \A k \in 1..Len(run[r].rows) :
                {t \in conversations : t.conversation_id = run[r].rows[k].conversation_id}
                    = {run[r].rows[k]}

\* C5, witness: the upsert met a stored row built from a detail and wrote a degraded
\* row over it
C5_Witness ==
    \E r \in Runs :
        /\ run[r].pc = "marker"
        /\ \E k \in 1..Len(run[r].rows) : \E old \in run[r].table0 :
              /\ old.conversation_id = run[r].rows[k].conversation_id
              /\ old.cost # NULL /\ old.transcript # << >>
              /\ run[r].rows[k].cost = NULL /\ run[r].rows[k].transcript = << >>
              /\ run[r].rows[k] \in conversations

\* C6: against the endless upstream a run never issues a 21st page request, and a run
\* that has left the paginator without an early stop has issued exactly 20 page
\* requests and collected the 20 items.
C6_CeilingHalts ==
    \A r \in Runs :
        upstream.kind = "endless" =>
            /\ run[r].pageRequests <= 20
            /\ (Listed(run[r]) /\ ~run[r].stopped) =>
                   /\ run[r].pageRequests = 20
                   /\ Len(run[r].allConversations) = 20

\* C6, witness: the paginator has returned after the 20th page of the endless upstream
C6_Witness ==
    \E r \in Runs :
        /\ upstream.kind = "endless"
        /\ run[r].pc = "batch"
        /\ ~run[r].stopped
        /\ run[r].pageRequests = 20
        /\ run[r].cursor # NULL

\* pagination ended because the page ceiling was hit
Truncated(rr) == Listed(rr) /\ ~rr.stopped /\ rr.cursor # NULL /\ rr.page >= 20

\* C7 as claimed: the summary of a run whose pagination hit the ceiling carries a
\* page or stop-reason field.
C7_SummaryReportsCeiling ==
    \A r \in Runs :
        (run[r].pc = "done" /\ Truncated(run[r])) =>
            \E f \in DOMAIN run[r].summary :
                f \in {"page", "pages", "stopReason", "stoppedEarly", "truncated"}

\* C7 as amended: a run whose pagination hit the ceiling has logged pages = 20 and
\* stoppedEarly = false with the number of items fetched, and its summary carries
\* newCount, totalCount and lastSyncedAt and nothing else.
C7_CeilingIsLoggedOnly ==
    \A r \in Runs :
        Truncated(run[r]) =>
            /\ run[r].fetchLog = [totalFetched |-> Len(run[r].allConversations),
                                  pages |-> 20, stoppedEarly |-> FALSE]
            /\ run[r].pc = "done" =>
                   /\ DOMAIN run[r].summary = {"newCount", "totalCount", "lastSyncedAt"}
                   /\ run[r].summary.newCount = Len(run[r].allConversations)

\* C7, witness: a run truncated at the ceiling has returned its summary
C7_Witness ==
    \E r \in Runs :
        /\ run[r].pc = "done"
        /\ Truncated(run[r])
        /\ run[r].summary.newCount = 20

\* the detail request of the k-th item found failed
DetailFailed(rr, k) == ~rr.detailedConvs[k].detail.present

\* C8: the newCount a run returns is the number of items the paginator returned,
\* the items whose detail request failed included; and in the run without checkpoint
\* over one page of 3 items in which only the second detail request failed,
\* newCount = 3 and the second row has an empty transcript, no cost and the status and
\* the start time of its list item, both non-null.
C8_NewCountCountsDegraded ==
    \A r \in Runs :
        (run[r].pc = "done" /\ Len(run[r].allConversations) > 0) =>
            /\ run[r].summary.newCount = Len(run[r].allConversations)
            /\ (/\ run[r].stopBeforeUnix = NULL
                /\ run[r].pageRequests = 1
                /\ Len(run[r].allConversations) = 3
                /\ ~DetailFailed(run[r], 1)
                /\ DetailFailed(run[r], 2)
                /\ ~DetailFailed(run[r], 3))
               => /\ run[r].summary.newCount = 3
                  /\ run[r].rows[2].transcript = << >>
                  /\ run[r].rows[2].cost = NULL
                  /\ run[r].rows[2].status # NoStr
                  /\ run[r].rows[2].status = run[r].allConversations[2].status
                  /\ run[r].rows[2].start_time_unix # NULL
                  /\ run[r].rows[2].start_time_unix = ListStart(run[r].allConversations[2])

\* C9: a run whose checkpoint query failed has ended with DATABASE_ERROR and no
\* summary, has issued no remote request and has left the store as it was; a run
\* whose upsert failed has ended with DATABASE_ERROR and no summary and has left the
\* last-synced marker as it was.
C9_StorageFailureAborts ==
    \A r \in Runs :
        /\ run[r].checkpointFailed =>
              /\ run[r].pc = "failed"
              /\ run[r].error.code = "DATABASE_ERROR"
              /\ run[r].summary = NoSummary
              /\ run[r].pageRequests = 0
              /\ run[r].detailRequests = 0
              /\ conversations = run[r].table0
              /\ agents = run[r].agents0
        /\ run[r].upsertFailed =>
              /\ run[r].pc = "failed"
              /\ run[r].error.code = "DATABASE_ERROR"
              /\ run[r].summary = NoSummary
              /\ agents[run[r].agentDbId].last_synced_at
                     = run[r].agents0[run[r].agentDbId].last_synced_at

\* C9, witness: the upsert of the rows of a second run failed, the marker still holds
\* the time of the first run
C9_Witness ==
    \E r \in Runs :
        /\ run[r].upsertFailed
        /\ Len(run[r].rows) > 0
        /\ agents[run[r].agentDbId].last_synced_at # NULL
        /\ agents[run[r].agentDbId].last_synced_at < run[r].now

\* C10: a run ends in an error only when its checkpoint query, a listing request or
\* its upsert failed, and the error is that failure's; a run that has ended without
\* such a failure has returned a summary, however many detail requests failed.
C10_DetailFailureNeverAborts ==
    \A r \in Runs :
        /\ run[r].pc = "failed" =>
              /\ run[r].errAt \in {"checkpoint", "listing", "upsert"}
              /\ \/ run[r].checkpointFailed /\ run[r].error = ErrDatabase
                 \/ run[r].remoteError # NoError /\ run[r].error = run[r].remoteError
                 \/ run[r].upsertFailed /\ run[r].error = ErrDatabase
        /\ (/\ run[r].pc \in {"done", "failed"}
            /\ ~run[r].checkpointFailed
            /\ run[r].remoteError = NoError
            /\ ~run[r].upsertFailed)
           => /\ run[r].pc = "done"
              /\ run[r].summary # NoSummary
              /\ run[r].summary.newCount = Len(run[r].allConversations)

\* C10, witness: every detail request of a run over two items failed and the run
\* returned its summary
C10_Witness ==
    \E r \in Runs :
        /\ run[r].pc = "done"
        /\ Len(run[r].allConversations) >= 2
        /\ run[r].detailFailures = Len(run[r].allConversations)
        /\ run[r].summary.newCount = Len(run[r].allConversations)

\* the paginator of the run returned zero items
FoundNothing(rr) == Listed(rr) /\ Len(rr.allConversations) = 0

C12_MarkerSetByEverySuccess ==
    \A r \in Runs :
        run[r].pc = "done" =>
            /\ run[r].markerCalls = 1
            /\ agents[run[r].agentDbId].last_synced_at = run[r].now

\* C12 as amended: a run that found items and whose upsert succeeded issues the marker
\* update once, however many items it found, and the marker then holds the time of
\* the run unless the update failed; a run that found nothing leaves the marker alone.
C12_MarkerSetAfterUpsert ==
    \A r \in Runs :
        LET marker == agents[run[r].agentDbId].last_synced_at
            before == run[r].agents0[run[r].agentDbId].last_synced_at
        IN  /\ (run[r].pc \in {"count", "done"} /\ Len(run[r].allConversations) > 0) =>
                  /\ run[r].markerCalls = 1
                  /\ marker = IF run[r].markerFailed THEN before ELSE run[r].now
            /\ FoundNothing(run[r]) =>
                  /\ run[r].markerCalls = 0
                  /\ marker = before

\* C12, witness: a second run that found items has returned its summary and the marker
\* has moved from the time of the first run to the time of the second
C12_Witness ==
    \E r \in Runs :
        /\ run[r].pc = "done"
        /\ Len(run[r].allConversations) > 0
        /\ run[r].agents0[run[r].agentDbId].last_synced_at # NULL
        /\ run[r].agents0[run[r].agentDbId].last_synced_at < run[r].now
        /\ agents[run[r].agentDbId].last_synced_at = run[r].now

\* a run issues at most one upsert and at most one marker update, the marker update
\* only after the upsert; and when the upsert is issued every detail request of the
\* run has been issued and has settled
UpsertThenMarkerOnce ==
    \A r \in Runs :
        /\ run[r].upsertCalls <= 1
        /\ run[r].markerCalls <= 1
        /\ run[r].markerCalls <= run[r].upsertCalls
        /\ (run[r].upsertCalls = 1 \/ run[r].pc = "upsert") =>
              /\ run[r].detailRequests = Len(run[r].allConversations)
              /\ Len(run[r].detailedConvs) = Len(run[r].allConversations)
              /\ run[r].results = << >>

\* a step changes the conversations table only as the upsert of a run that has issued
\* none before, and the agents table only as the marker update of a run that has
\* upserted and has issued no marker update before; the upsert leaves the agents
\* table and the marker update the conversations table alone
StoreStep ==
        /\ conversations' # conversations =>
            /\ agents' = agents
            /\ \E r \in Runs :
                  /\ run[r].pc = "upsert" /\ run'[r].pc = "marker"
                  /\ run[r].upsertCalls = 0 /\ run'[r].upsertCalls = 1
                  /\ conversations' = UpsertRows(conversations, run[r].rows)
        /\ agents' # agents =>
            /\ conversations' = conversations
            /\ \E r \in Runs :
                  /\ run[r].pc = "marker" /\ run'[r].pc = "count"
                  /\ run[r].upsertCalls = 1
                  /\ run[r].markerCalls = 0 /\ run'[r].markerCalls = 1

\* C13: within a run the store is changed by at most one bulk upsert and at most one
\* marker update, in that order, and by no other step; the upsert is issued only
\* after every detail batch of the run has settled.
C13_OneUpsertThenOneMarker == []UpsertThenMarkerOnce /\ [][StoreStep]_vars

\* C13, witness: a run of two detail batches has issued its upsert and then its marker
\* update, and both changed the store
C13_Witness ==
    \E r \in Runs :
        /\ run[r].pc \in {"count", "done"}
        /\ run[r].upsertCalls = 1 /\ run[r].markerCalls = 1
        /\ run[r].sleeps >= 1
        /\ conversations # run[r].table0
        /\ agents # run[r].agents0

\* the class of a failed exchange
ExchangeClass(res) ==
    IF res.network THEN "transport"
    ELSE IF res.status = 401 THEN "unauthorized"
    ELSE IF res.status = 403 THEN "forbidden"
    ELSE IF res.status = 404 THEN "not-found"
    ELSE IF res.status = 429 THEN "rate-limited"
    ELSE "generic"

\* the failed exchanges a state holds, each with the error elFetch threw for it: the
\* rejected detail requests of the batches in flight and the failed listing requests
Thrown ==
    UNION { { [res |-> run[r].results[j].res, err |-> run[r].results[j].reason] :
                j \in {i \in DOMAIN run[r].results : run[r].results[i].state = "rejected"} }
            \cup (IF run[r].remoteError # NoError
                  THEN {[res |-> run[r].remoteRes, err |-> run[r].remoteError]}
                  ELSE {}) :
            r \in Runs }

\* C14 as claimed: the errors thrown for exchanges of two different classes (401, 403,
\* 404, 429, another non-2xx status, a transport failure) have different kinds.
C14_KindsPairwiseDistinct ==
    \A p, q \in Thrown :
        ExchangeClass(p.res) # ExchangeClass(q.res) => p.err.code # q.err.code

\* C14 as amended: 404 gives NOT_FOUND and 429 gives RATE_LIMITED; 401, 403, any other
\* non-2xx status and a transport failure all give the kind ELEVENLABS_ERROR, which
\* carries the response status for a status and no status for a transport failure; so
\* the errors of two different classes differ, in the kind or in the status carried.
C14_KindsByStatusCarried ==
    /\ \A p \in Thrown :
          /\ p.err.code = (CASE ExchangeClass(p.res) = "not-found" -> "NOT_FOUND"
                             [] ExchangeClass(p.res) = "rate-limited" -> "RATE_LIMITED"
                             [] OTHER -> "ELEVENLABS_ERROR")
          /\ p.err.status = (CASE ExchangeClass(p.res) \in {"not-found", "rate-limited",
                                                             "transport"} -> NULL
                               [] OTHER -> p.res.status)
    /\ \A p, q \in Thrown :
          ExchangeClass(p.res) # ExchangeClass(q.res) => p.err # q.err

\* C14, witness: two detail requests of one batch were rejected, one for a transport
\* failure and one for a status that has no mapping of its own
C14_Witness ==
    \E p, q \in Thrown :
        /\ ExchangeClass(p.res) = "transport"
        /\ ExchangeClass(q.res) = "generic"
        /\ q.err.status = 503

\* the k-th row of the run was built from a detail payload without a charging block
NoChargingBlock(rr, k) ==
    /\ rr.detailedConvs[k].detail.present
    /\ ~RowMeta(rr.detailedConvs[k].list, rr.detailedConvs[k].detail).charging.present

C16_TranscriptAndMetadataNeverNull ==
    probe.built =>
        /\ probe.row.conversation_id = probe.listItem.conversation_id
        /\ probe.row.transcript # NoTranscript
        /\ probe.row.transcript =
              IF probe.detail.present /\ probe.detail.transcript # NoTranscript
              THEN probe.detail.transcript ELSE << >>
        /\ probe.row.metadata.present
        /\ probe.row.metadata \in
              {probe.detail.metadata, probe.listItem.metadata, EmptyMeta}

\* C16, witness: a row was built from a payload that has neither transcript nor
\* metadata, for a list item without metadata
C16_Witness ==
    /\ probe.built
    /\ probe.detail.present
    /\ probe.detail.transcript = NoTranscript
    /\ ~probe.detail.metadata.present
    /\ ~probe.listItem.metadata.present
    /\ probe.row.transcript = << >>
    /\ probe.row.metadata = EmptyMeta

(***************************************************************************)
(* C17: a reset and the sync run after it                                  *)
(***************************************************************************)
ResetSucceeded ==
    /\ web.pc = "responded"
    /\ web.route = "DELETE /conversations/reset/:agentId"
    /\ web.response.status = 200

\* a run called by the sync route while the store held no row of its agent
RunOnEmptiedStore(r) ==
    /\ web.pc = "syncing"
    /\ run[r].pc # "idle"
    /\ RowsOf(run[r].table0, run[r].agentDbId) = {}

SyncRequestOfNonAdmin ==
    /\ web.pc # "idle"
    /\ web.route = "POST /conversations/sync/:agentId"
    /\ web.caller # NoStr
    /\ profiles[web.caller] # "admin"

\* C18: a POST sync request of a user whose role is not admin is answered FORBIDDEN
\* at once and before any agent lookup; syncConversations is not called, no run is
\* started, no request goes to the upstream and the store is as it was
C18_NonAdminSyncRejectedBeforeLookup ==
    SyncRequestOfNonAdmin =>
        /\ web.pc = "responded"
        /\ web.response.status = 403
        /\ web.response.code = "FORBIDDEN"
        /\ web.lookups = 0
        /\ ~web.invoked
        /\ started = web.started0
        /\ \A r \in Runs : run[r] = IdleRun
        /\ conversations = web.table0
        /\ agents = web.agents0

\* a client who has access to agent A, which has an API key and cached rows, asks for
\* a sync of it
C18_Witness ==
    /\ SyncRequestOfNonAdmin
    /\ web.role = "client"
    /\ web.agentId = "A"
    /\ <<web.caller, "A">> \in agent_access
    /\ "A" \in DOMAIN agents /\ TruthyStr(agents["A"].api_key)
    /\ RowsOf(conversations, "A") # {}
    /\ web.response.code = "FORBIDDEN"

(***************************************************************************)
(* C19: what a client reads of an agent they have no access to             *)
(***************************************************************************)
GetRoutes ==
    {"GET /agents", "GET /agents/:id", "GET /agents/:id/stats",
     "GET /conversations/:agentId", "GET /conversations/:agentId/:conversationId"}

\* a GET request of an authenticated user who is not an admin has been answered
ClientGetAnswered ==
    /\ web.pc = "responded"
    /\ web.route \in GetRoutes
    /\ web.caller # NoStr
    /\ profiles[web.caller] \notin {NoStr, "admin"}

NoAccess(a) == <<web.caller, a>> \notin agent_access

\* the response carries no record, statistics or cached row of agent a
CarriesNothingOf(a) ==
    /\ \A rec \in web.response.agents : rec.id # a
    /\ \A row \in web.response.rows : row.agent_db_id # a
    /\ web.response.info = << >> \/ web.response.info.agentId # a

\* C19 as stated: every GET request of a non-admin without an agent_access row for an
\* agent (the agent named by the request, or for the list any agent of the table)
\* carries nothing of the agent and ends in a forbidden or not-found error
C19_NoAccessAlwaysAnError ==
    ClientGetAnswered =>
        \A a \in RequestAgentIds :
            (/\ NoAccess(a)
             /\ IF web.route = "GET /agents" THEN a \in DOMAIN agents ELSE web.agentId = a)
            => /\ CarriesNothingOf(a)
               /\ web.response.code \in {"FORBIDDEN", "NOT_FOUND"}

\* C19 amended: no GET response to a non-admin carries the record, the statistics or a
\* cached row of an agent for which the user has no agent_access row; a request that
\* names such an agent ends in FORBIDDEN or NOT_FOUND, and the list request succeeds
\* with the records of the agents the user has access to, or ends in DATABASE_ERROR
C19_NoAccessNothingRead ==
    ClientGetAnswered =>
        /\ \A a \in RequestAgentIds : NoAccess(a) => CarriesNothingOf(a)
        /\ web.route # "GET /agents" /\ NoAccess(web.agentId)
              => /\ web.response.code \in {"FORBIDDEN", "NOT_FOUND"}
                 /\ web.response.agents = {} /\ web.response.rows = {}
                 /\ web.response.info = << >>
        /\ web.route = "GET /agents"
              => \/ web.response.code = "DATABASE_ERROR"
                 \/ /\ web.response.status = 200
                    /\ {rec.id : rec \in web.response.agents}
                          = {a \in DOMAIN agents : ~NoAccess(a)}

\* a client with access to agent B only asks for the cached conversations of agent A,
\* which has some, and is refused
C19_Witness ==
    /\ ClientGetAnswered
    /\ web.route = "GET /conversations/:agentId"
    /\ web.agentId = "A"
    /\ NoAccess("A") /\ ~NoAccess("B")
    /\ RowsOf(conversations, "A") # {}
    /\ web.response.code = "FORBIDDEN"

(***************************************************************************)
(* C20: the API key of an agent in the responses                           *)
(***************************************************************************)
\* the keys configured now or when the request arrived
ConfiguredKeys ==
    {k \in {agents[a].api_key : a \in DOMAIN agents}
            \cup {web.agents0[a].api_key : a \in DOMAIN web.agents0} : TruthyStr(k)}

TextColumns == {"id", "name", "agent_id", "emoji", "color", "agentId", "agentName", "message"}

\* the texts of a record of the body
TextsOf(rec) == {rec[c] : c \in DOMAIN rec \cap TextColumns}

\* C20: no response of an agents or conversations route, to an admin or to anyone
\* else, has an api_key column in an agent record, a conversation row or its other
\* fields, or a text equal to a configured key; the key that getAgentForUser read is
\* the one of the agents table and is held only while the route calls syncConversations
C20_NoResponseCarriesApiKey ==
    /\ web.pc = "responded" =>
          /\ \A rec \in web.response.agents :
                "api_key" \notin DOMAIN rec /\ TextsOf(rec) \cap ConfiguredKeys = {}
          /\ \A row \in web.response.rows : "api_key" \notin DOMAIN row
          /\ "api_key" \notin DOMAIN web.response.info
          /\ TextsOf(web.response.info) \cap ConfiguredKeys = {}
    /\ web.invoked =>
          /\ web.route = "POST /conversations/sync/:agentId"
          /\ web.role = "admin"
          /\ web.agent.api_key = web.agents0[web.agent.id].api_key
          /\ TruthyStr(web.agent.api_key)

\* an admin has set a new key on an agent and received the agent's record
C20_Witness ==
    /\ web.pc = "responded"
    /\ web.route = "PUT /agents/:id"
    /\ web.role = "admin"
    /\ web.response.status = 200
    /\ agents[web.agentId].api_key = "key_new"
    /\ \E rec \in web.response.agents : rec.id = web.agentId

(***************************************************************************)
(* C21, C22: the role a signup ends with                                   *)
(***************************************************************************)
\* the signup of u has completed with a 201 response
SignedUp(u) == signup[u].pc = "done" /\ signup[u].response.status = 201

\* no invite for the email of u was pending when u signed up or was recorded before
\* the signup completed
Uninvited(u) == signup[u].invited0 = NoStr /\ ~signup[u].invitedSince

\* C21: after a completed signup without an invite the stored role of the user is
\* admin if the profiles table was empty beforehand and client otherwise
C21_FirstSignupIsAdmin ==
    \A u \in Users :
        SignedUp(u) /\ Uninvited(u) =>
            profiles[u] = IF signup[u].first THEN "admin" ELSE "client"

\* an invite for the email of u was pending when u signed up and none was recorded
\* while the signup was handled
InvitedBefore(u) == signup[u].invited0 # NoStr /\ ~signup[u].invitedSince

\* C22: after a completed signup with an email that had a pending invite the stored
\* role is the role of the newest invite, the response reports the stored role and no
\* invite of the email remains
C22_InvitedSignupGetsInviteRole ==
    \A u \in Users :
        SignedUp(u) /\ InvitedBefore(u) =>
            /\ profiles[u] = signup[u].invited0
            /\ signup[u].response.info.role = profiles[u]
            /\ LatestInvite(pending_invites, u) = NoStr

(***************************************************************************)
(* C23: the detail requests of a run                                       *)
(***************************************************************************)
\* the detail requests of run r that have not settled
Outstanding(r) == {j \in DOMAIN run[r].results : run[r].results[j].state = "pending"}

AtMostABatchOutstanding ==
    \A r \in Runs : Cardinality(Outstanding(r)) <= DETAIL_BATCH_SIZE

\* a step that issues detail requests finds none outstanding and issues the whole
\* batch at once; a step that settles a request leaves its siblings as they are
BatchStep ==
    \A r \in Runs :
        /\ run'[r].detailRequests > run[r].detailRequests =>
              /\ Outstanding(r) = {}
              /\ run'[r].detailRequests - run[r].detailRequests = Len(run'[r].results)
              /\ Len(run'[r].results) = Len(Batch(run[r]))
              /\ \A j \in DOMAIN run'[r].results : run'[r].results[j].state = "pending"
        /\ \A j \in Outstanding(r) :
              (run'[r].pc = "await" /\ run'[r].results[j].state # "pending") =>
                  \A k \in DOMAIN run[r].results \ {j} :
                      run'[r].results[k] = run[r].results[k]

\* C23: at most 8 detail requests of a run are outstanding; the requests of a batch
\* are issued together and only when every request of the batch before has settled;
\* a rejection changes nothing about the other requests of its batch
C23_BatchesOfEightOneAtATime == []AtMostABatchOutstanding /\ [][BatchStep]_vars

\* the 8 requests of the second batch are outstanding after a first batch of 8 in
\* which one request was rejected and the 7 others were fulfilled
C23_Witness ==
    \E r \in Runs :
        /\ run[r].pc = "await"
        /\ run[r].i = DETAIL_BATCH_SIZE
        /\ Cardinality(Outstanding(r)) = DETAIL_BATCH_SIZE
        /\ Len(run[r].detailedConvs) = DETAIL_BATCH_SIZE
        /\ run[r].detailFailures = 1

(***************************************************************************)
(* C24: the pacing delays of a run                                         *)
(***************************************************************************)
\* the detail batches run r has issued: every batch but the last is a full one
BatchesIssued(r) ==
    (run[r].detailRequests + DETAIL_BATCH_SIZE - 1) \div DETAIL_BATCH_SIZE

\* C24: a run about to issue a batch has slept once for every batch before it, and at
\* every other point a run that has issued batches has slept once less than their
\* number, whatever the outcomes of the requests: one delay between two successive
\* batches and none after the last, which a finished run shows for all its batches
C24_OneDelayBetweenBatches ==
    \A r \in Runs :
        /\ run[r].pc = "batch" => run[r].sleeps = BatchesIssued(r)
        /\ run[r].pc # "batch" /\ BatchesIssued(r) >= 1
              => run[r].sleeps = BatchesIssued(r) - 1
        /\ run[r].pc = "done" /\ Len(run[r].allConversations) > 0
              => BatchesIssued(r) * DETAIL_BATCH_SIZE
                    \in Len(run[r].allConversations)
                        .. (Len(run[r].allConversations) + DETAIL_BATCH_SIZE - 1)

\* a run over 16 conversations, two full batches with two failed detail requests,
\* has finished after one delay
C24_Witness ==
    \E r \in Runs :
        /\ run[r].pc = "done"
        /\ Len(run[r].allConversations) = 2 * DETAIL_BATCH_SIZE
        /\ run[r].detailFailures = 2
        /\ run[r].sleeps = 1

(***************************************************************************)
(* C25: the checkpoint of a run                                            *)
(***************************************************************************)
\* run r has read its checkpoint
CheckpointRead(r) ==
    run[r].pc \notin {"idle", "checkpoint"} /\ ~run[r].checkpointFailed

\* C25: the checkpoint of a run is absent exactly when the store held no row of the
\* agent when the run started, and is otherwise the greatest start_time_unix of
\* those rows
C25_CheckpointIsStoredMaximum ==
    \A r \in Runs :
        CheckpointRead(r) =>
            LET rows == RowsOf(run[r].table0, run[r].agentDbId)
            IN  /\ run[r].stopBeforeUnix = NULL <=> rows = {}
                /\ rows # {} =>
                      /\ \E t \in rows : t.start_time_unix = run[r].stopBeforeUnix
                      /\ \A t \in rows : t.start_time_unix = NULL
                                           \/ t.start_time_unix <= run[r].stopBeforeUnix

(***************************************************************************)
(* C26: fetchAllConversations without a checkpoint                         *)
(***************************************************************************)
\* the list items of the whole listing, in upstream order
WholeListing(up) == [k \in 1..Len(up.feed) |-> ListItemOf(up.feed[k], up.shape)]

\* C26: called without a checkpoint on a listing of at most 20 pages,
\* fetchAllConversations returns every item of every page in upstream order, after
\* one request per page (one request for an empty listing), each but the first with
\* the cursor of the page before, and with no early stop
C26_NoCheckpointWalksEveryPage ==
    \A r \in Runs :
        (/\ Listed(run[r])
         /\ run[r].stopBeforeUnix = NULL
         /\ PagesOf(upstream) <= DefaultMaxPages)
        => /\ run[r].allConversations = WholeListing(upstream)
           /\ run[r].pageRequests = IF PagesOf(upstream) = 0 THEN 1 ELSE PagesOf(upstream)
           /\ run[r].page = PagesOf(upstream)
           /\ ~run[r].stopped

\* the paginator has returned the 20 items of a listing of 20 pages
C26_Witness ==
    \E r \in Runs :
        /\ Listed(run[r])
        /\ run[r].stopBeforeUnix = NULL
        /\ upstream.kind = "paged"
        /\ PagesOf(upstream) = DefaultMaxPages
        /\ run[r].pageRequests = DefaultMaxPages
        /\ Len(run[r].allConversations) = DefaultMaxPages

(***************************************************************************)
(* C27: the scalars of a row                                               *)
(***************************************************************************)
\* the value the detail carries for a field of its metadata, NULL if it carries none
DetailNumber(field) ==
    IF probe.detail.present /\ probe.detail.metadata.present
    THEN probe.detail.metadata[field] ELSE NULL

\* the value the metadata of the list item carries for a field, NULL if none
ListNumber(field) ==
    IF probe.listItem.metadata.present THEN probe.listItem.metadata[field] ELSE NULL

\* the detail-level value if there is one, else the list-level value, else null
Preferred(detailValue, listValue, none) ==
    IF detailValue # none THEN detailValue ELSE listValue

\* C27: status, start_time_unix and duration_secs of a row are the detail's value
\* whenever the detail carries one, the integer 0 included, else the list item's
\* value, else null
C27_DetailValueWins ==
    probe.built =>
        /\ probe.row.start_time_unix =
              Preferred(DetailNumber("start_time_unix_secs"),
                        ListNumber("start_time_unix_secs"), NULL)
        /\ probe.row.duration_secs =
              Preferred(DetailNumber("call_duration_secs"),
                        ListNumber("call_duration_secs"), NULL)
        /\ probe.row.status =
              Preferred(IF probe.detail.present /\ probe.detail.status # ""
                        THEN probe.detail.status ELSE NoStr,
                        probe.listItem.status, NoStr)

(***************************************************************************)
(* C28: the sources of the user name                                       *)
(***************************************************************************)
ProbedVariables ==
    IF probe.detail.present THEN probe.detail.dynamic_variables ELSE << >>

\* the positions of the variables (b) accepts: a key that suggests a name, a
\* non-empty string shorter than 40 characters
NameLikeAt ==
    {k \in DOMAIN ProbedVariables :
        /\ KeySuggestsName(ProbedVariables[k].key)
        /\ ProbedVariables[k].type = "string"
        /\ ProbedVariables[k].len > 0 /\ ProbedVariables[k].len < 40}

\* the positions of the turns (c) accepts: one of the first 20, spoken by the agent,
\* with a message the greeting pattern matches
GreetingAt ==
    {k \in DOMAIN probe.transcript :
        /\ k <= 20
        /\ probe.transcript[k].role = "agent"
        /\ probe.transcript[k].message # NoStr
        /\ GreetingMatch(probe.transcript[k].message) # NoStr}

Least(S) == CHOOSE k \in S : \A j \in S : k <= j

\* what (b), then (c), then null give
AfterUserName ==
    IF NameLikeAt # {} THEN ProbedVariables[Least(NameLikeAt)].text
    ELSE IF GreetingAt # {} THEN GreetingMatch(probe.transcript[Least(GreetingAt)].message)
    ELSE NoStr

\* C28 as stated: the name is the variable user_name whenever the payload has it,
\* else the first other variable with a name-like key and a string shorter than 40
\* characters, else the first greeting of the agent in the first 20 turns, else null
C28_UserNameWheneverPresent ==
    probe.built =>
        probe.name =
            IF \E k \in DOMAIN ProbedVariables : ProbedVariables[k].key = "user_name"
            THEN (CHOOSE v \in {ProbedVariables[k] : k \in DOMAIN ProbedVariables} :
                     v.key = "user_name").text
            ELSE AfterUserName

\* C28 amended: the name is the variable user_name when the payload has it with a
\* non-empty value; else the first variable with a name-like key and a non-empty
\* string shorter than 40 characters; else the first greeting of the agent in the
\* first 20 turns; else null.  An empty value counts as no value
C28_SourcesInStrictPriority ==
    probe.built =>
        probe.name =
            IF \E k \in DOMAIN ProbedVariables :
                  ProbedVariables[k].key = "user_name" /\ TruthyVal(ProbedVariables[k])
            THEN (CHOOSE v \in {ProbedVariables[k] : k \in DOMAIN ProbedVariables} :
                     v.key = "user_name").text
            ELSE AfterUserName

\* the payload has an empty user_name and a customer_name of 40 characters, the agent
\* greets in turn 20: the name is the greeting's
C28_Witness ==
    /\ probe.built
    /\ Len(ProbedVariables) = 2
    /\ ProbedVariables[1].key = "user_name" /\ ProbedVariables[1].len = 0
    /\ ProbedVariables[2].key = "customer_name" /\ ProbedVariables[2].len = 40
    /\ Len(probe.transcript) = 21
    /\ probe.transcript[20] = Turn("agent", "Hey Ana!")
    /\ probe.name = "Ana"

(***************************************************************************)
(* C29: the checkpoints of successive runs                                 *)
(***************************************************************************)
\* run r follows a run for the same agent that returned its summary
FollowsSuccess(r) == run[r].prev # NoSummary

\* C29: the checkpoint a run reads is at or above the checkpoint the successful run
\* before it read (an absent checkpoint is below every other)
C29_CheckpointNeverMovesBack ==
    \A r \in Runs :
        CheckpointRead(r) /\ FollowsSuccess(r) =>
            run[r].stopBeforeUnix >= run[r].prevStop

(***************************************************************************)
(* C30: degraded rows behind the checkpoint                                *)
(***************************************************************************)
\* the row buildRow makes of the conversation's list item when detail = null
DegradedRow(rr, row) ==
    \E now \in 1..MaxRuns :
        row = buildRow(rr.agentDbId, rr.agentElId,
                       ListItemOf(row.conversation_id, upstream.shape), NoDetail, now)

\* a row the store held at the call of the run, degraded, of a conversation that
\* started at or before the checkpoint the run has read
SettledDegraded(r, row) ==
    /\ CheckpointRead(r)
    /\ row \in run[r].table0
    /\ row.agent_db_id = run[r].agentDbId
    /\ DegradedRow(run[r], row)
    /\ run[r].stopBeforeUnix # NULL
    /\ ConvStart(row.conversation_id) <= run[r].stopBeforeUnix

\* C30: a degraded row that is stored when a run is called, of a conversation whose
\* start time is at or below the checkpoint the run reads, is not among the items
\* the run collects (so its detail is not requested), and the store holds the row
\* unchanged in every state of the run.
C30_SettledDegradedRowIsLeftAlone ==
    \A r \in Runs : \A row \in run[r].table0 :
        SettledDegraded(r, row) =>
            /\ \A k \in 1..Len(run[r].allConversations) :
                 run[r].allConversations[k].conversation_id # row.conversation_id
            /\ row \in conversations

\* C30, witness: a run over a store with such a row has collected a newer
\* conversation, stopped at the checkpoint and ended with success
C30_Witness ==
    \E r \in Runs :
        /\ run[r].pc = "done"
        /\ Len(run[r].allConversations) > 0
        /\ \E row \in run[r].table0 :
             /\ SettledDegraded(r, row)
             /\ ConvStart(row.conversation_id) = run[r].stopBeforeUnix


(***************************************************************************)
(* C31: the conversations behind the page ceiling                          *)
(***************************************************************************)
\* a conversation of the endless listing that stands behind the last page a call of
\* fetchAllConversations can ask for
BeyondCeiling(id) == id > 100 + DefaultMaxPages

\* C31: against the endless (static) upstream no conversation behind the page
\* ceiling is ever stored, and a run that read a checkpoint leaves the paginator by
\* the early stop, having collected nothing that started at or before its checkpoint
\* and nothing behind the ceiling.
C31_BeyondCeilingNeverStored ==
    upstream.kind = "endless" =>
        /\ \A row \in conversations : ~BeyondCeiling(row.conversation_id)
        /\ \A r \in Runs :
             CheckpointRead(r) /\ run[r].stopBeforeUnix # NULL =>
                 /\ Listed(run[r]) => run[r].stopped
                 /\ \A k \in 1..Len(run[r].allConversations) :
                      /\ ConvStart(run[r].allConversations[k].conversation_id)
                             > run[r].stopBeforeUnix
                      /\ ~BeyondCeiling(run[r].allConversations[k].conversation_id)

\* C31, witness: a run without a checkpoint stored the conversations of the 20 pages; the
\* run after it read a checkpoint, stopped on the first page and returned its summary
C31_Witness ==
    \E r \in Runs :
        /\ upstream.kind = "endless"
        /\ run[r].pc = "done"
        /\ run[r].stopBeforeUnix # NULL
        /\ run[r].stopped
        /\ Cardinality(run[r].table0) = DefaultMaxPages
        /\ conversations = run[r].table0


(***************************************************************************)
(* C32: a run and the rows of another agent                                *)
(***************************************************************************)
\* C32: in every state of a run for one agent, every row the store held at the call
\* for another agent is in the store unchanged, and the other agent's row count and
\* checkpoint are what they were at the call.
C32_OtherAgentsRowsUntouched ==
    \A r \in Runs :
        run[r].pc # "idle" =>
            \A b \in DOMAIN agents \ {run[r].agentDbId} :
                /\ RowsOf(run[r].table0, b) \subseteq conversations
                /\ CountOf(conversations, b) = CountOf(run[r].table0, b)
                /\ Checkpoint(conversations, b, nullsFirst)
                       = Checkpoint(run[r].table0, b, nullsFirst)


(***************************************************************************)
(* C33: two overlapping runs for one agent                                 *)
(***************************************************************************)
\* the conversation_ids a table holds
StoredIds(table) == {t.conversation_id : t \in table}

\* the conversation_ids of the listing: what one run alone stores from an empty store
ListedIds == {upstream.feed[k] : k \in 1..Len(upstream.feed)}

\* every started run has ended and one of them returned its summary
BothEnded ==
    /\ \A r \in DOMAIN run : ~Active(r)
    /\ \E r \in DOMAIN run : run[r].pc = "done"

\* C33: when the runs have ended and one of them succeeded, the store holds exactly
\* one row for each conversation of the listing and no other, whatever the order of
\* the runs' steps was.
C33_OverlappingRunsStoreOneRowEach ==
    BothEnded =>
        /\ StoredIds(conversations) = ListedIds
        /\ \A id \in ListedIds :
             Cardinality({t \in conversations : t.conversation_id = id}) = 1

\* C33, witness: both runs read an absent checkpoint before either wrote, both wrote
\* the rows of the whole listing, and both returned their summary
C33_Witness ==
    /\ DOMAIN run = ConcRuns
    /\ \A r \in ConcRuns :
         /\ run[r].pc = "done"
         /\ run[r].table0 = {}
         /\ run[r].stopBeforeUnix = NULL
         /\ run[r].upsertCalls = 1
         /\ Len(run[r].rows) = Len(upstream.feed)
    /\ Len(upstream.feed) > 1


(***************************************************************************)
(* C34: the total a run reports                                            *)
(***************************************************************************)
\* C34: the summary of a run carries as totalCount the number of rows the store held
\* for the agent at the call plus the summary's newCount.
C34_TotalIsBeforePlusNew ==
    \A r \in Runs :
        run[r].pc = "done" =>
            run[r].summary.totalCount
                = CountOf(run[r].table0, run[r].agentDbId) + run[r].summary.newCount


(***************************************************************************)
(* C35: failures after the upsert                                          *)
(***************************************************************************)
\* the rows the run built are in the store
RowsStored(r) == \A k \in 1..Len(run[r].rows) : run[r].rows[k] \in conversations

\* C35: a run whose marker update failed has not thrown and its rows are stored; a
\* run whose count query failed has returned a summary with its newCount and
\* totalCount 0, has thrown nothing, and its rows are stored.
C35_LateFailuresDoNotAbort ==
    \A r \in Runs :
        /\ run[r].markerFailed =>
             /\ run[r].pc \in {"count", "done"}
             /\ run[r].error = NoError
             /\ RowsStored(r)
        /\ run[r].countFailed =>
             /\ run[r].pc = "done"
             /\ run[r].error = NoError
             /\ run[r].summary # NoSummary
             /\ run[r].summary.totalCount = 0
             /\ run[r].summary.newCount = Len(run[r].rows)
             /\ RowsStored(r)

\* C35, witness: a run wrote its rows, then both its marker update and its count
\* query failed, and it returned
C35_Witness ==
    \E r \in Runs :
        /\ run[r].pc = "done"
        /\ run[r].upsertCalls = 1
        /\ Len(run[r].rows) > 0
        /\ run[r].markerFailed
        /\ run[r].countFailed
        /\ run[r].summary.newCount > 0


(***************************************************************************)
(* C36: a reset during a run                                               *)
(***************************************************************************)
\* the conversation_ids of the rows a run built
RowIds(rr) == {rr.rows[k].conversation_id : k \in 1..Len(rr.rows)}

\* the conversations of the listing that started at or before the checkpoint of the
\* run and of which the store held no row when the run was called
DeletedBehind(r) ==
    {id \in ListedIds : /\ ConvStart(id) <= run[r].stopBeforeUnix
                        /\ id \notin StoredIds(run[r].table0)}

\* a run that read a checkpoint collects only conversations that started after it:
\* none of the older conversations missing from the store is fetched or stored again
OlderNotRefetched ==
    \A r \in Runs :
        CheckpointRead(r) /\ run[r].stopBeforeUnix # NULL =>
            /\ \A k \in 1..Len(run[r].allConversations) :
                 ConvStart(run[r].allConversations[k].conversation_id)
                     > run[r].stopBeforeUnix
            /\ DeletedBehind(r) \cap StoredIds(conversations) = {}

\* the upsert of a run that read a checkpoint, taken after a reset emptied the store:
\* the store then holds the rows of the run and no other, all of conversations that
\* started after the checkpoint
UpsertAfterReset ==
    \A r \in Runs :
        ( /\ run[r].pc = "upsert" /\ run'[r].pc = "marker"
          /\ run[r].stopBeforeUnix # NULL
          /\ run[r].table0 # {}
          /\ conversations = {} )
        => /\ StoredIds(conversations') = RowIds(run[r])
           /\ \A id \in StoredIds(conversations') : ConvStart(id) > run[r].stopBeforeUnix

AdminsSignedUp == {u \in Users : SignedUp(u) /\ profiles[u] = "admin"}

\* C37: of the accounts created by signups that started on an empty profiles table
\* with no invite recorded, at most one is stored with the role admin.
C37_AtMostOneFirstUser ==
    pending_invites = << >> /\ (\A u \in Users : Uninvited(u)) =>
        Cardinality(AdminsSignedUp) <= 1

====
